---- MODULE Spec2Model ----
(***************************************************************************)
(* Model of the ChimeraPy control plane.                                   *)
(*                                                                         *)
(* Part I   the Worker's HttpServerService                                 *)
(*          (src/chimerapy/engine/worker/http_server_service.py) with the  *)
(*          NodeState / WorkerState records of src/chimerapy/engine/       *)
(*          states.py.  The NodeHandler and the Node processes that sit    *)
(*          behind the Worker's event bus are not part of src/; they are   *)
(*          modelled from the specification (sections 4.5, 4.9, 4.11).     *)
(* Part II  the Manager's WorkerHandler (specification section 4.7),       *)
(*          driving Workers through the routes of Part I.                  *)
(* Part III one Node's registered-method dispatch (specification sections  *)
(*          4.9 and 4.11) behind the Worker's routes of Part I.            *)
(* Part IV  the Worker's POST /packages/load route and the uploads it      *)
(*          waits for.                                                     *)
(* Part VI  a UI client on the Manager's WebSocket (specification sections *)
(*          4.8 and 6.3).                                                  *)
(* Part VII a Publisher and a connected Subscriber exchanging DataChunks   *)
(*          (specification sections 3 and 4.4).                            *)
(* Part VIII the JSON record writer and a Node that records a JSON stream  *)
(*          (specification sections 4.9 and 4.10).                         *)
(* Part IX  ServiceGroup (src/chimerapy/service.py).                       *)
(* Part X   AsyncLoopThread.exec_noncoro (specification sections 4.3 and   *)
(*          5).                                                            *)
(* Part XI  the Logger process (src/pymmdt/logger.py).                     *)
(* Part XII the Worker entry point (src/chimerapy/entry/worker.py).        *)
(* Part XIII a TabularDataStream (src/pymmdt/tabular/data_stream.py).      *)
(* Part XIV a SingleRunner, its loader and its logger                      *)
(*          (src/pymmdt/runner.py, src/pymmdt/logger.py).                  *)
(* Part XV  the dashboard Manager (src/pymmdt/app/pylib/manager.py).       *)
(* Part V   shutdown() of the Manager and of a Worker (specification       *)
(*          sections 4.1, 4.7 and 8), through the Worker's POST /shutdown  *)
(*          route and shutdown observer of Part I.                         *)
(***************************************************************************)
EXTENDS Integers, Sequences, FiniteSets, TLC

(***************************************************************************)
(* Bounds of the model.                                                    *)
(***************************************************************************)
\* HTTP requests a Worker accepts in one behaviour of SpecHttp.
MaxReq == 3

\* Messages in flight on one Node's socket.
MaxWs == 2

\* Events waiting on the bus when a WS route publishes (SpecWorker).
MaxBus == 1

(***************************************************************************)
(* Data model (states.py).                                                 *)
(***************************************************************************)
NodeIds == {"n1", "n2"}

WorkerId == "w1"

\* NodeState.fsm, states.py lines 20-30, in declaration order.
FSM == <<"NULL", "INITIALIZED", "CONNECTED", "READY", "PREVIEWING",
         "RECORDING", "STOPPED", "SAVED", "SHUTDOWN">>

FsmStates == {FSM[i] : i \in 1..Len(FSM)}

\* Position of an fsm value in the declared order.
Rank(f) == CHOOSE i \in 1..Len(FSM) : FSM[i] = f

\* NodeState(id): the dataclass defaults (port = 0, fsm = "NULL").  The fields
\* name and registered_methods take no part in any handler and are left out.
NodeState(id) == [id |-> id, port |-> 0, fsm |-> "NULL"]

\* DataClassJsonMixin.to_dict / from_dict of a NodeState: a dict keyed by
\* field name; from_dict fills a missing key with the dataclass default.
NodeState_to_dict(ns) == [id |-> ns.id, port |-> ns.port, fsm |-> ns.fsm]

NodeState_from_dict(d) ==
    [id |-> d["id"],
     port |-> IF "port" \in DOMAIN d THEN d["port"] ELSE 0,
     fsm |-> IF "fsm" \in DOMAIN d THEN d["fsm"] ELSE "NULL"]

\* pickle.dumps / pickle.loads of a value: the bytes are an opaque wrapper.
PickleDumps(x) == [pickled |-> x]

PickleLoads(b) == b.pickled

\* Event(type, data) of the event bus.
Event(type, data) == [type |-> type, data |-> data]

NoData == [kind |-> "none"]

CreateNodeEvent(node_config) == [kind |-> "CreateNodeEvent", node_config |-> node_config]

DestroyNodeEvent(node_id) == [kind |-> "DestroyNodeEvent", node_id |-> node_id]

ProcessNodeServerDataEvent(msg) == [kind |-> "ProcessNodeServerDataEvent", data |-> msg]

RegisteredMethodEvent(node_id, method_name, params) ==
    [kind |-> "RegisteredMethodEvent", node_id |-> node_id,
     method_name |-> method_name, params |-> params]

UpdateGatherEvent(node_id, latest_value) ==
    [kind |-> "UpdateGatherEvent", node_id |-> node_id, latest_value |-> latest_value]

UpdateResultsEvent(node_id, output) ==
    [kind |-> "UpdateResultsEvent", node_id |-> node_id, output |-> output]

(***************************************************************************)
(* Inputs.                                                                 *)
(***************************************************************************)
\* Port a Worker is configured with: 0 (let the OS choose) or a fixed one.
ConfiguredPorts == {0, 8080}

\* The ports the OS hands out for a configured port of 0.
OsPorts == {49152}

ServerHost == "10.0.0.1"

\* Publisher port of a Node process.
NodePort(n) == IF n = "n1" THEN 5001 ELSE 5002

\* Registered methods of the Nodes (test_registered_methods.py lines 32-48):
\* name -> style.
MethodStyle(m) ==
    CASE m = "printout" -> "concurrent"
      [] m = "set_value" -> "blocking"
      [] m = "reset" -> "reset"

MethodNames == {"set_value", "reset"}

\* The latest value a Node's step returned (conftest.py: GenNode returns 2,
\* ConsumeNode three times that).
LatestValue(n) == IF n = "n1" THEN 2 ELSE 6

VARIABLES
    wstate,      \* WorkerState: [id, ip, port, nodes]
    server,      \* Server: [host, port, serving]
    busq,        \* events published on the Worker's bus, not yet observed
    resp,        \* the last HTTP response produced
    nreq,        \* HTTP requests accepted so far
    collecting,  \* /nodes/collect handlers in flight: req -> events published
    tasks,       \* self.tasks: scheduled asend(shutdown) tasks not yet run
    nodeProc,    \* the Node processes: node id -> its own fsm ("NONE": no process)
    wsq,         \* Node -> Worker WebSocket: node id -> messages in flight
    destroying,  \* nodes the NodeHandler is shutting down
    \* ---- Part II: one Manager and its Workers ----
    mgr,         \* ManagerState.workers: worker id -> WorkerState snapshot
    wst,         \* each Worker's connection to the Manager
    cw,          \* each Worker's own WorkerState.nodes
    cproc,       \* the Node processes of each Worker: node id -> fsm
    csub,        \* the publisher each edge's consumer has subscribed to
    creq,        \* Manager -> Worker requests, per Worker, in arrival order
    cbusy,       \* the Worker has begun the request at the head of creq
    cmap,        \* the mapping of the committed graph (node -> worker)
    mop,         \* the lifecycle operation the Manager is running
    mrst,        \* the reset the Manager is running
    fut,         \* the last future that resolved
    sess,        \* how far the user has driven the session
    hist,        \* the mappings a commit has resolved true for so far
    clate,       \* per Worker: reaped Nodes whose last STATUS is still in flight
    \* ---- Part III: the registered methods of one Node ----
    nval,        \* the Node's self.value
    nstep,       \* the step in progress: the value it read, or NoStep
    ninq,        \* invocations on the Node's control channel, not yet begun
    nrun,        \* invocations running on the Node
    nrid,        \* request ids the NodeHandler has issued
    waiting,     \* requests the NodeHandler awaits a result for, oldest first
    delivered,   \* request id -> the output handed to the request
    produced,    \* request id -> the value its invocation returned
    nsince,      \* the value of a set_value that returned, until the next step ends
    \* ---- Part IV: package delivery ----
    ftr,         \* server.file_transfer_records["Manager"]: package -> record
    syspath,     \* sys.path: the packages inserted, newest first
    loading,     \* /packages/load handlers: req -> [packages, rest, phase]
    \* ---- Part V: shutdown of the Manager and of the Worker ----
    mup,         \* the Manager: "up", "stopping" or "down"
    wup,         \* the Worker: "up" or "down"
    ucall,       \* the shutdown() call the user's thread is in, or NoCall
    uret,        \* the shutdown() calls that have returned: [who, ok], in order
    \* ---- Part VI: a UI client on the Manager's WebSocket ----
    uiconn,      \* the client is connected
    uiq,         \* the client's send queue: frames not yet received
    uiview,      \* the ManagerState the client rebuilt from the last frame
    uidrops,     \* frames dropped from the client's queue
    \* ---- Part VII: one Publisher and its Subscriber ----
    published,   \* the DataChunks handed to publish(), in order
    pubq,        \* the Publisher's outbound queue: serialized chunks
    sublatest,   \* the Subscriber's most recent chunk not yet returned
    subrets,     \* the chunks receive() has returned, in order
    subto,       \* a receive() has timed out
    \* ---- Part VIII: record writers and a recording Node ----
    disk,        \* the files on disk: file name -> its lines
    jwritten,    \* per record name: the entries handed to write(), in order
    rfsm,        \* the recording Node's fsm
    rq,          \* the Node's record queue
    rsaves,      \* save_json calls the Node's steps have made
    rrec,        \* those made while the fsm was RECORDING
    \* ---- Part IX: a ServiceGroup ----
    sgdata,      \* ServiceGroup.data: the member names, in insertion order
    sgorder,     \* the order argument of the last apply
    sgcalls,     \* the members the last apply called the method on, in order
    sgapplied,   \* which apply ran last: "none", "apply" or "async_apply"
    \* ---- Part X: an AsyncLoopThread ----
    alcalls,     \* the exec_noncoro calls made: [waitable, runs, set, waited, seen]
    already,     \* the loop's ready queue: calls scheduled, not yet run
    alrun,       \* the call whose callback the loop is in (0: none)
    alqsize,     \* queue.qsize() of the test's queue
    \* ---- Part XI: the Logger process ----
    lmeta,       \* self.meta_data: [id, subsessions, records]
    lfile,       \* meta.json on disk
    lrecords,    \* self.records: <<session, name>> -> [cls, chunks, closed]
    lq,          \* logging_queue
    lnum,        \* self.num_of_logged_data
    lout,        \* message_from_queue: the messages the Logger has sent
    lexit,       \* thread_exit is set
    lstate,      \* run(): "running", "crashed" (flush raised) or "finished"
    lput,        \* chunks put on logging_queue: [total, at_exit]
    \* ---- Part XII: the Worker entry point ----
    cli,         \* main(): [status, args, exit_code]
    \* ---- Part XIII: a TabularDataStream ----
    tdata,       \* self.data: the rows, in order
    ttrack,      \* self.timetrack: rows [time, ds_index]
    tnapp,       \* append calls made
    tgot,        \* the last get() on the stream as it is: [start, end, rows]
    \* ---- Part XIV: a SingleRunner with its loader and logger ----
    rload,       \* loading_queue: data chunks, then 'END'
    rlog,        \* logging_queue: uuids of the chunks to log
    rmfl,        \* message_from_loading_queue
    rmfg,        \* message_from_logging_queue
    rtoload,     \* the messages put on message_to_loading_queue, in order
    rtolog,      \* the messages put on message_to_logging_queue, in order
    rmemload,    \* loading_queue_memory_chunks: uuid -> memory usage
    rmemlog,     \* logging_queue_memory_chunks: uuid -> memory usage
    rflag,       \* loader_finished, logger_finished, loader_paused, counters
    rexit,       \* thread_exit is set
    rmt,         \* check_messages: [pc, loading_message, .._new, logging_..]
    rmain,       \* the main thread, in process_data and shutdown: [pc, uuid]
    rproc,       \* the loader and logger processes: [loader, loaded, logger]
    rdisp,       \* per message: how many times it was dispatched
    rdel,        \* per chunk uuid: how many times its entry was deleted
    \* ---- Part XV: the dashboard Manager ----
    dmeta,       \* meta.json and what meta_update made of it
    dq,          \* the queues: [loading, sorting, from_loading, from_sorting]
    dsent,       \* messages put on message_to_loading/sorting_queue: [loader, sorter]
    dmem,        \* loading_/sorting_queue_memory_chunks: [loading, sorting]
    dflag,       \* loader_paused, sorter_paused, stop_everything, _is_play, ...
    dmt,         \* check_messages: [pc, the two messages, their flags, stop]
    duc,         \* update_content: [pc, uuid, entry_time, played]
    dgui,        \* the GUI thread: [pc, restarts, replay]
    dproc        \* the loader and sorter processes: [loaded, window, last]

httpVars == <<wstate, server, busq, resp, nreq, collecting, tasks, nodeProc, wsq, destroying>>

clusterVars == <<mgr, wst, cw, cproc, csub, creq, cbusy, cmap, mop, mrst, fut, sess,
                 hist, clate>>

methodVars == <<nval, nstep, ninq, nrun, nrid, waiting, delivered, produced, nsince>>

loadVars == <<ftr, syspath, loading>>

shutVars == <<mup, wup, ucall, uret>>

uiVars == <<uiconn, uiq, uiview, uidrops>>

pubVars == <<published, pubq, sublatest, subrets, subto>>

\* The variables of the parts that stand beside the control plane.
recVars == <<disk, jwritten, rfsm, rq, rsaves, rrec>>

svcVars == <<sgdata, sgorder, sgcalls, sgapplied>>

loopVars == <<alcalls, already, alrun, alqsize>>

logVars == <<lmeta, lfile, lrecords, lq, lnum, lout, lexit, lstate, lput>>

cliVars == <<cli>>

tabVars == <<tdata, ttrack, tnapp, tgot>>

\* The variables of the legacy pymmdt package (Parts XIII-XV).
runVars == <<rload, rlog, rmfl, rmfg, rtoload, rtolog, rmemload, rmemlog, rflag, rexit,
             rmt, rmain, rproc, rdisp, rdel>>

dashVars == <<dmeta, dq, dsent, dmem, dflag, dmt, duc, dgui, dproc>>

legacyVars == <<tabVars, runVars, dashVars>>

auxVars == <<pubVars, recVars, svcVars, loopVars, logVars, cliVars, legacyVars>>

extVars == <<methodVars, loadVars, shutVars, uiVars, auxVars>>

\* The variables of Parts I-VI.
coreVars == <<httpVars, clusterVars, methodVars, loadVars, shutVars, uiVars>>

\* The variables outside Part III, outside Part IV, and of Parts III-V.
nonMethodVars == <<clusterVars, loadVars, shutVars, uiVars, auxVars>>

nonLoadVars == <<clusterVars, methodVars, shutVars, uiVars, auxVars>>

nonUiVars == <<methodVars, loadVars, shutVars, auxVars>>

vars == <<httpVars, clusterVars, extVars>>

Publish(ev) == busq' = Append(busq, ev)

NoResp == [req |-> 0, route |-> "", status |-> 0, body |-> NoData]

Response(req, route, status, body) ==
    [req |-> req, route |-> route, status |-> status, body |-> body]

\* A request can be accepted: the server is up (and the model's bound).
Accepting == server.serving /\ nreq < MaxReq

(***************************************************************************)
(* HttpServerService.__init__ : the state after construction.              *)
(***************************************************************************)
HttpInit ==
    /\ \E p \in ConfiguredPorts :
          /\ wstate = [id |-> WorkerId, ip |-> "", port |-> p, nodes |-> <<>>]
          /\ server = [host |-> "", port |-> p, serving |-> FALSE, served |-> FALSE]
    /\ busq = <<>>
    /\ resp = NoResp
    /\ nreq = 0
    /\ collecting = <<>>
    /\ tasks = {}
    /\ nodeProc = [n \in NodeIds |-> "NONE"]
    /\ wsq = [n \in NodeIds |-> <<>>]
    /\ destroying = {}

(***************************************************************************)
(* HttpServerService.start (observer of the "start" event).                *)
(***************************************************************************)
\* Server.async_serve: binds; an OS-chosen port when configured with 0.
Server_async_serve(s) ==
    [s EXCEPT !.host = ServerHost,
              !.port = IF s.port = 0 THEN CHOOSE p \in OsPorts : TRUE ELSE s.port,
              !.serving = TRUE, !.served = TRUE]

start_unreported ==
    /\ UNCHANGED <<clusterVars, extVars>>
    /\ ~server.served
    /\ server' = Server_async_serve(server)
    /\ Publish(Event("after_server_startup", NoData))
    /\ UNCHANGED <<wstate, resp, nreq, collecting, tasks, nodeProc, wsq, destroying>>

start ==
    /\ UNCHANGED <<clusterVars, extVars>>
    /\ ~server.served
    /\ server' = Server_async_serve(server)
    /\ wstate' = [wstate EXCEPT !.ip = server'.host, !.port = server'.port]
    /\ Publish(Event("after_server_startup", NoData))
    /\ UNCHANGED <<resp, nreq, collecting, tasks, nodeProc, wsq, destroying>>

\* Mutant: async_shutdown flips the server: a second call serves again.
Server_async_shutdown_toggles(s) == [s EXCEPT !.serving = ~@]

\* HttpServerService.shutdown (observer of the "shutdown" event).
\* Server.async_shutdown: stop serving.
Server_async_shutdown(s) == [s EXCEPT !.serving = FALSE]

shutdown(ev) ==
    /\ ev.type = "shutdown"
    /\ server' = Server_async_shutdown(server)
    /\ UNCHANGED <<wstate, nodeProc, wsq, destroying>>

(***************************************************************************)
(* HTTP routes (http_server_service.py lines 198-288).  Each handler takes *)
(* the next request id, publishes on the bus and produces its response.    *)
(***************************************************************************)
\* The event a single-event route publishes for a request body.
create_node_event(msg_bytes) ==
    Event("create_node", CreateNodeEvent(PickleLoads(msg_bytes)))

destroy_node_event(msg) ==
    Event("destroy_node", DestroyNodeEvent(msg["id"]))

process_node_server_data_event(msg) ==
    Event("process_node_server_data", ProcessNodeServerDataEvent(msg))

step_event == Event("step", NoData)

\* Mutant: /nodes/start publishes the event of /nodes/record.
start_nodes_event_as_record == Event("record", NoData)

start_nodes_event == Event("start_nodes", NoData)

record_event == Event("record", NoData)

registered_method_event(msg) ==
    Event("registered_method",
          RegisteredMethodEvent(msg["node_id"], msg["method_name"], msg["params"]))

stop_nodes_event == Event("stop_nodes", NoData)

\* return web.HTTPOk()
HTTPOk(req, route) == Response(req, route, 200, NoData)

\* Mutant: the create route registers the Node in the WorkerState itself.
PublishAndReply_registers(route, ev) ==
    /\ UNCHANGED <<clusterVars, extVars>>
    /\ Accepting
    /\ nreq' = nreq + 1
    /\ Publish(ev)
    /\ resp' = HTTPOk(nreq + 1, route)
    /\ wstate' = IF ev.type = "create_node"
                 THEN [wstate EXCEPT !.nodes =
                          (ev.data.node_config.id :> NodeState(ev.data.node_config.id)) @@ @]
                 ELSE wstate
    /\ UNCHANGED <<server, collecting, tasks, nodeProc, wsq, destroying>>

\* A single-event route: await asend(ev); return web.HTTPOk().
PublishAndReply(route, ev) ==
    /\ UNCHANGED <<clusterVars, extVars>>
    /\ Accepting
    /\ nreq' = nreq + 1
    /\ Publish(ev)
    /\ resp' = HTTPOk(nreq + 1, route)
    /\ UNCHANGED <<wstate, server, collecting, tasks, nodeProc, wsq, destroying>>

async_create_node_route ==
    \E n \in NodeIds :
        PublishAndReply("/nodes/create",
                        create_node_event(PickleDumps([id |-> n])))

async_destroy_node_route ==
    \E n \in NodeIds :
        PublishAndReply("/nodes/destroy", destroy_node_event([id |-> n]))

\* Mutant: the fragment carries the default port, not the recorded one.
create_node_server_data_default_port(state) ==
    [id |-> state.id,
     nodes |-> [n \in DOMAIN state.nodes |->
                   [host |-> state.ip, port |-> NodeState(n).port]]]

\* _create_node_server_data: the Worker's fragment of the peer table.
create_node_server_data(state) ==
    [id |-> state.id,
     nodes |-> [n \in DOMAIN state.nodes |->
                   [host |-> state.ip, port |-> state.nodes[n].port]]]

\* GET /nodes/server_data
async_report_node_server_data ==
    /\ UNCHANGED <<clusterVars, extVars>>
    /\ Accepting
    /\ nreq' = nreq + 1
    /\ resp' = Response(nreq + 1, "GET /nodes/server_data", 200,
                        [success |-> TRUE,
                         node_server_data |-> create_node_server_data(wstate)])
    /\ UNCHANGED <<wstate, server, busq, collecting, tasks, nodeProc, wsq, destroying>>

\* The merged peer table the Manager posts.
PeerTable ==
    [id |-> "manager",
     nodes |-> [n \in NodeIds |-> [host |-> ServerHost, port |-> NodePort(n)]]]

\* POST /nodes/server_data
async_process_node_server_data ==
    PublishAndReply("/nodes/server_data",
                    process_node_server_data_event(PeerTable))

async_step_route == PublishAndReply("/nodes/step", step_event)

async_start_nodes_route == PublishAndReply("/nodes/start", start_nodes_event)

async_record_route == PublishAndReply("/nodes/record", record_event)

\* The request body of test_registered_methods.py lines 121-131 / 146-156.
RequestMethodMsg(n, m) ==
    [node_id |-> n, method_name |-> m, timeout |-> 10,
     params |-> IF m = "set_value" THEN [value |-> -100] ELSE <<>>]

\* POST /nodes/registered_methods for Node n and method m.
request_method_route(n, m) ==
    PublishAndReply("/nodes/registered_methods",
                    registered_method_event(RequestMethodMsg(n, m)))

async_request_method_route ==
    \E n \in NodeIds, m \in MethodNames : request_method_route(n, m)

async_stop_nodes_route == PublishAndReply("/nodes/stop", stop_nodes_event)

\* GET /nodes/gather
async_report_node_gather_route ==
    /\ UNCHANGED <<clusterVars, extVars>>
    /\ Accepting
    /\ nreq' = nreq + 1
    /\ Publish(Event("node_gather", NoData))
    /\ resp' = Response(nreq + 1, "GET /nodes/gather", 200,
                        PickleDumps([id |-> wstate.id, node_data |-> <<>>]))
    /\ UNCHANGED <<wstate, server, collecting, tasks, nodeProc, wsq, destroying>>

\* Mutant: the archive is requested before the collection.
async_collect_steps_swapped == <<"send_archive", "collect", "reply">>

\* POST /nodes/collect: what the handler does, in program order.  It
\* suspends at each await, so every entry is a step of its own and other
\* handlers may run in between.
async_collect_steps == <<"collect", "send_archive", "reply">>

\* await request.json(): the handler starts, nothing published yet.
async_collect_begin ==
    /\ UNCHANGED <<clusterVars, extVars>>
    /\ Accepting
    /\ nreq' = nreq + 1
    /\ collecting' = (nreq + 1 :> <<>>) @@ collecting
    /\ UNCHANGED <<wstate, server, busq, resp, tasks, nodeProc, wsq, destroying>>

\* The next statement of a collect handler in flight; collecting[r] is what
\* it has published so far.
async_collect_step ==
    /\ UNCHANGED <<clusterVars, extVars>>
    /\ \E r \in DOMAIN collecting :
        LET pc == Len(collecting[r]) + 1
            op == async_collect_steps[pc]
        IN IF op = "reply"
           THEN /\ resp' = HTTPOk(r, "/nodes/collect")
                /\ collecting' = [q \in DOMAIN collecting \ {r} |-> collecting[q]]
                /\ UNCHANGED <<wstate, server, busq, nreq, tasks, nodeProc, wsq,
                               destroying>>
           ELSE /\ Publish(Event(op, NoData))
                /\ collecting' = [collecting EXCEPT ![r] = Append(@, op)]
                /\ UNCHANGED <<wstate, server, resp, nreq, tasks, nodeProc, wsq,
                               destroying>>

\* Mutant: the route awaits the shutdown event instead of scheduling it.
async_shutdown_route_awaits ==
    /\ UNCHANGED <<clusterVars, extVars>>
    /\ Accepting
    /\ nreq' = nreq + 1
    /\ Publish(Event("shutdown", NoData))
    /\ resp' = HTTPOk(nreq + 1, "/shutdown")
    /\ UNCHANGED <<wstate, server, tasks, collecting, nodeProc, wsq, destroying>>

\* POST /shutdown: asyncio.create_task(asend(Event("shutdown"))), then reply.
async_shutdown_route ==
    /\ UNCHANGED <<clusterVars, extVars>>
    /\ Accepting
    /\ nreq' = nreq + 1
    /\ tasks' = tasks \cup {nreq + 1}
    /\ resp' = HTTPOk(nreq + 1, "/shutdown")
    /\ UNCHANGED <<wstate, server, busq, collecting, nodeProc, wsq, destroying>>

\* The scheduled task runs on a later turn of the loop.
shutdown_task ==
    /\ UNCHANGED <<clusterVars, extVars>>
    /\ \E r \in tasks :
        /\ tasks' = tasks \ {r}
        /\ Publish(Event("shutdown", NoData))
        /\ UNCHANGED <<wstate, server, resp, nreq, collecting, nodeProc, wsq, destroying>>

(***************************************************************************)
(* WS routes (http_server_service.py lines 294-330): messages a Node sends *)
(* to its Worker, handled in the order each Node's socket delivers them.   *)
(***************************************************************************)
\* Mutant: the snapshot is recorded whether or not the Node is known.
UpdateNodes_unguarded(nodes, node_state) ==
    (node_state.id :> node_state) @@ nodes

\* Mutant: the snapshot is written over every record, not only the sender's.
UpdateNodes_every(nodes, node_state) ==
    IF node_state.id \in DOMAIN nodes
    THEN [k \in DOMAIN nodes |-> node_state]
    ELSE nodes

\* if node_id in self.state.nodes: self.state.nodes[node_id] = node_state
UpdateNodes(nodes, node_state) ==
    IF node_state.id \in DOMAIN nodes
    THEN [nodes EXCEPT ![node_state.id] = node_state]
    ELSE nodes

async_node_status_update ==
    /\ UNCHANGED <<clusterVars, extVars>>
    /\ \E n \in NodeIds :
        /\ wsq[n] # <<>> /\ Head(wsq[n]).signal = "STATUS"
        /\ LET msg == Head(wsq[n])
               node_state == NodeState_from_dict(msg.data)
           IN wstate' = [wstate EXCEPT !.nodes = UpdateNodes(@, node_state)]
        /\ wsq' = [wsq EXCEPT ![n] = Tail(@)]
        /\ UNCHANGED <<server, busq, resp, nreq, collecting, tasks, nodeProc,
                       destroying>>

async_node_report_gather ==
    /\ UNCHANGED <<clusterVars, extVars>>
    /\ \E n \in NodeIds :
        /\ wsq[n] # <<>> /\ Head(wsq[n]).signal = "REPORT_GATHER"
        /\ LET msg == Head(wsq[n])
               node_state == NodeState_from_dict(msg.data["state"])
           IN /\ wstate' = [wstate EXCEPT !.nodes = UpdateNodes(@, node_state)]
              /\ Publish(Event("update_gather",
                               UpdateGatherEvent(node_state.id,
                                                 msg.data["latest_value"])))
        /\ wsq' = [wsq EXCEPT ![n] = Tail(@)]
        /\ UNCHANGED <<server, resp, nreq, collecting, tasks, nodeProc, destroying>>

async_node_report_results ==
    /\ UNCHANGED <<clusterVars, extVars>>
    /\ \E n \in NodeIds :
        /\ wsq[n] # <<>> /\ Head(wsq[n]).signal = "REPORT_RESULTS"
        /\ LET msg == Head(wsq[n])
           IN Publish(Event("update_results",
                            UpdateResultsEvent(msg.data["node_id"],
                                               msg.data["output"])))
        /\ wsq' = [wsq EXCEPT ![n] = Tail(@)]
        /\ UNCHANGED <<wstate, server, resp, nreq, collecting, tasks, nodeProc,
                       destroying>>

(***************************************************************************)
(* Behind the bus: the NodeHandler and the Node processes (specification   *)
(* sections 4.5, 4.9, 4.11).  Each operation is the observer of one event  *)
(* type and is handed the event ev by the bus.                             *)
(***************************************************************************)
NodeSnapshot(n, fsm) == [id |-> n, port |-> NodePort(n), fsm |-> fsm]

StatusMsg(n, fsm) ==
    [signal |-> "STATUS", data |-> NodeState_to_dict(NodeSnapshot(n, fsm))]

GatherMsg(n, fsm, v) ==
    [signal |-> "REPORT_GATHER",
     data |-> [state |-> NodeState_to_dict(NodeSnapshot(n, fsm)), latest_value |-> v]]

ResultsMsg(n, out) ==
    [signal |-> "REPORT_RESULTS", data |-> [node_id |-> n, output |-> out]]

\* The fsm a Node reaches from fsm f on a lifecycle command (f when the
\* command does not apply in f).
NodeStep(f, cmd) ==
    CASE cmd = "process_node_server_data" /\ f = "INITIALIZED" -> "CONNECTED"
      [] cmd = "start_nodes" /\ f = "READY" -> "PREVIEWING"
      [] cmd = "record" /\ f = "PREVIEWING" -> "RECORDING"
      [] cmd = "stop_nodes" /\ f \in {"PREVIEWING", "RECORDING"} -> "STOPPED"
      [] cmd = "collect" /\ f = "STOPPED" -> "SAVED"
      [] OTHER -> f

LifecycleCommands ==
    {"process_node_server_data", "start_nodes", "record", "stop_nodes", "collect"}

\* Events whose observers leave the Nodes and the WorkerState alone.
PassiveEvents ==
    {"after_server_startup", "step", "send_archive", "update_gather", "update_results"}

\* A Node process that takes commands.
Running(n) == nodeProc[n] \notin {"NONE", "NULL", "SHUTDOWN"}

\* A Node's socket takes another message (bound of the model).
WsRoom(n) == Len(wsq[n]) < MaxWs

\* create_node(config): register the Node and spawn its process.
NodeHandler_create_node(ev) ==
    /\ ev.type = "create_node"
    /\ LET n == ev.data.node_config.id
       IN IF n \in DOMAIN wstate.nodes
          THEN UNCHANGED <<wstate, nodeProc>>
          ELSE /\ wstate' = [wstate EXCEPT !.nodes = (n :> NodeState(n)) @@ @]
               /\ nodeProc' = [nodeProc EXCEPT ![n] = "NULL"]
    /\ UNCHANGED <<server, wsq, destroying>>

\* A lifecycle command is broadcast to the Nodes; each Node it applies to
\* advances and reports its status.
NodeHandler_command(ev) ==
    /\ ev.type \in LifecycleCommands
    /\ LET moved == {n \in NodeIds : Running(n)
                                     /\ NodeStep(nodeProc[n], ev.type) # nodeProc[n]}
       IN /\ \A n \in moved : WsRoom(n)
          /\ nodeProc' = [n \in NodeIds |->
                             IF n \in moved THEN NodeStep(nodeProc[n], ev.type)
                             ELSE nodeProc[n]]
          /\ wsq' = [n \in NodeIds |->
                        IF n \in moved
                        THEN Append(wsq[n], StatusMsg(n, NodeStep(nodeProc[n], ev.type)))
                        ELSE wsq[n]]
    /\ UNCHANGED <<wstate, server, destroying>>

\* destroy_node(id): send shutdown to the Node, which reports SHUTDOWN ...
NodeHandler_destroy_node(ev) ==
    /\ ev.type = "destroy_node"
    /\ LET n == ev.data.node_id
       IN IF n \in DOMAIN wstate.nodes /\ n \notin destroying
          THEN /\ WsRoom(n)
               /\ destroying' = destroying \cup {n}
               /\ nodeProc' = [nodeProc EXCEPT ![n] = "SHUTDOWN"]
               /\ wsq' = [wsq EXCEPT ![n] = Append(@, StatusMsg(n, "SHUTDOWN"))]
          ELSE UNCHANGED <<destroying, nodeProc, wsq>>
    /\ UNCHANGED <<wstate, server>>

\* registered_method(node_id, method, params): a reset-style method runs
\* only in READY or PREVIEWING and leaves the Node READY; the return value
\* is reported with REPORT_RESULTS.
MethodReturn(m, params) == IF m = "set_value" THEN params["value"] ELSE 100

\* Mutant: a reset-style method is dispatched in any fsm.
ResetMayRun_always(f) == TRUE

\* A reset-style method is dispatched only while the Node is READY or
\* PREVIEWING.
ResetMayRun(f) == f \in {"READY", "PREVIEWING"}

\* Mutant: a reset-style method leaves the Node's fsm as it found it.
AfterMethod_keeps(m, f) == f

\* The fsm a method of Node in fsm f leaves: READY after a reset style.
AfterMethod(m, f) == IF MethodStyle(m) = "reset" THEN "READY" ELSE f

NodeHandler_registered_method(ev) ==
    /\ ev.type = "registered_method"
    /\ LET n == ev.data.node_id
           m == ev.data.method_name
           f == nodeProc[n]
           runs == /\ Running(n)
                   /\ MethodStyle(m) = "reset" => ResetMayRun(f)
           out == ResultsMsg(n, MethodReturn(m, ev.data.params))
       IN IF ~runs
          THEN UNCHANGED <<nodeProc, wsq>>
          ELSE IF MethodStyle(m) = "reset"
          THEN /\ Len(wsq[n]) + 1 < MaxWs
               /\ nodeProc' = [nodeProc EXCEPT ![n] = AfterMethod(m, f)]
               /\ wsq' = [wsq EXCEPT ![n] = @ \o <<StatusMsg(n, AfterMethod(m, f)), out>>]
          ELSE /\ WsRoom(n)
               /\ wsq' = [wsq EXCEPT ![n] = Append(@, out)]
               /\ UNCHANGED nodeProc
    /\ UNCHANGED <<wstate, server, destroying>>

\* node_gather: every running Node reports its state and latest value.
NodeHandler_gather(ev) ==
    /\ ev.type = "node_gather"
    /\ \A n \in NodeIds : Running(n) => WsRoom(n)
    /\ wsq' = [n \in NodeIds |->
                  IF Running(n)
                  THEN Append(wsq[n], GatherMsg(n, nodeProc[n], LatestValue(n)))
                  ELSE wsq[n]]
    /\ UNCHANGED <<wstate, server, nodeProc, destroying>>

Bus_passive(ev) ==
    /\ ev.type \in PassiveEvents
    /\ UNCHANGED <<wstate, server, nodeProc, wsq, destroying>>

\* The observers of an event.
Observe(ev) ==
    \/ shutdown(ev)
    \/ NodeHandler_create_node(ev)
    \/ NodeHandler_command(ev)
    \/ NodeHandler_destroy_node(ev)
    \/ NodeHandler_registered_method(ev)
    \/ NodeHandler_gather(ev)
    \/ Bus_passive(ev)

\* The bus hands the oldest published event to its observers.
Bus_dispatch ==
    /\ UNCHANGED <<clusterVars, extVars>>
    /\ busq # <<>>
    /\ busq' = Tail(busq)
    /\ Observe(Head(busq))
    /\ UNCHANGED <<resp, nreq, collecting, tasks>>

\* ... wait for SHUTDOWN, reap (second half of destroy_node).
NodeHandler_reap ==
    /\ UNCHANGED <<clusterVars, extVars>>
    /\ \E n \in destroying :
        /\ wstate.nodes[n].fsm = "SHUTDOWN"
        /\ destroying' = destroying \ {n}
        /\ nodeProc' = [nodeProc EXCEPT ![n] = "NONE"]
        /\ wstate' = [wstate EXCEPT
                         !.nodes = [m \in DOMAIN @ \ {n} |-> @[m]]]
        /\ UNCHANGED <<server, busq, resp, nreq, collecting, tasks, wsq>>

\* A spawned Node runs setup() and reports INITIALIZED; a connected Node
\* becomes READY.
Node_advance ==
    /\ UNCHANGED <<clusterVars, extVars>>
    /\ \E n \in NodeIds :
        /\ nodeProc[n] \in {"NULL", "CONNECTED"}
        /\ WsRoom(n)
        /\ LET f == IF nodeProc[n] = "NULL" THEN "INITIALIZED" ELSE "READY"
           IN /\ nodeProc' = [nodeProc EXCEPT ![n] = f]
              /\ wsq' = [wsq EXCEPT ![n] = Append(@, StatusMsg(n, f))]
        /\ UNCHANGED <<wstate, server, busq, resp, nreq, collecting, tasks, destroying>>

(***************************************************************************)
(* Part II.  One Manager, its WorkerHandler, and the Workers it drives.    *)
(* The Manager side follows the engine's specification of the Manager      *)
(* (registration, commit, lifecycle broadcast, reset); each Worker keeps    *)
(* its records with the HttpServerService operators of Part I.             *)
(***************************************************************************)
Workers == {"w1", "w2"}

WorkerIp(w) == IF w = "w1" THEN "10.0.0.1" ELSE "10.0.0.2"

\* The graph of the session: n1 -> n2.
Edges == {<<"n1", "n2">>}

\* The mappings a user commits the graph with: both Nodes on one Worker,
\* or one Node on each.
Mappings ==
    { [n \in NodeIds |-> "w1"],
      [n \in NodeIds |-> IF n = "n1" THEN "w1" ELSE "w2"] }

NoMap == <<>>

NoSub == [host |-> "", port |-> 0]

Idle == [name |-> "idle", phase |-> "idle"]

NoReset == [phase |-> "idle", keep |-> FALSE, during |-> "idle"]

\* A resolved future: the operation, its result, and for a reset what it
\* was called with and what it interrupted; for a commit, whether the same
\* mapping had been committed before.

\* The future of the operation in progress is unresolved.
NoFuture ==
    [op |-> "none", ok |-> FALSE, keep |-> FALSE, during |-> "idle", again |-> FALSE]

Future(op, ok) ==
    [op |-> op, ok |-> ok, keep |-> FALSE, during |-> "idle", again |-> FALSE]

Request(route, body) == [route |-> route, body |-> body]

ClusterInit ==
    /\ mgr = <<>>
    /\ wst = [w \in Workers |-> "new"]
    /\ cw = [w \in Workers |-> <<>>]
    /\ cproc = [w \in Workers |-> [n \in NodeIds |-> "NONE"]]
    /\ csub = [e \in Edges |-> NoSub]
    /\ creq = [w \in Workers |-> <<>>]
    /\ cbusy = [w \in Workers |-> FALSE]
    /\ cmap = NoMap
    /\ mop = Idle
    /\ mrst = NoReset
    /\ fut = NoFuture
    /\ sess = "none"
    /\ hist = {}
    /\ clate = [w \in Workers |-> {}]

\* No registered method has been requested; the Node's value is the
\* init_value it was built with (test_registered_methods.py lines 14-22).
NoStep == [running |-> FALSE]

NoSet == [set |-> FALSE, value |-> 0]

MethodInit ==
    /\ nval = 0
    /\ nstep = NoStep
    /\ ninq = <<>>
    /\ nrun = {}
    /\ nrid = 0
    /\ waiting = <<>>
    /\ delivered = <<>>
    /\ produced = <<>>
    /\ nsince = NoSet

\* No package has been sent and none is being loaded.
LoadInit ==
    /\ ftr = <<>>
    /\ syspath = <<>>
    /\ loading = <<>>

\* Manager and Worker are up and no shutdown() has been called.
NoCall == [who |-> "", phase |-> "none", mark |-> 0]

ShutInit ==
    /\ mup = "up"
    /\ wup = "up"
    /\ ucall = NoCall
    /\ uret = <<>>

\* No UI client is connected.
NoView == [kind |-> "none"]

UiInit ==
    /\ uiconn = FALSE
    /\ uiq = <<>>
    /\ uiview = NoView
    /\ uidrops = 0

\* No chunk: what receive() has to return before any chunk arrived.
NoChunk == [kind |-> "none"]

\* The fixtures publisher and subscriber: both started, nothing published.
PubInit ==
    /\ published = <<>>
    /\ pubq = <<>>
    /\ sublatest = NoChunk
    /\ subrets = <<>>
    /\ subto = FALSE

\* An empty log directory; the Node has been prepared and waits for commands.
RecInit ==
    /\ disk = <<>>
    /\ jwritten = <<>>
    /\ rfsm = "READY"
    /\ rq = <<>>
    /\ rsaves = 0
    /\ rrec = 0

\* ServiceGroup(): no members.
SvcInit ==
    /\ sgdata = <<>>
    /\ sgorder = <<>>
    /\ sgcalls = <<>>
    /\ sgapplied = "none"

\* The fixture thread: started, nothing scheduled; the queue is empty.
LoopInit ==
    /\ alcalls = <<>>
    /\ already = <<>>
    /\ alrun = 0
    /\ alqsize = 0

\* json.dump / json.load of meta_data: records, keyed by (session, name) in
\* the model, are nested by session and then by name in the file.
MetaSessions(records) == {k[1] : k \in DOMAIN records}

MetaDump(m) ==
    [id |-> m.id, subsessions |-> m.subsessions,
     records |-> [sn \in MetaSessions(m.records) |->
                     [n \in {k[2] : k \in {j \in DOMAIN m.records : j[1] = sn}} |->
                         m.records[<<sn, n>>]]]]

MetaLoad(f) ==
    [id |-> f.id, subsessions |-> f.subsessions,
     records |-> [k \in UNION {{<<sn, n>> : n \in DOMAIN f.records[sn]} :
                                  sn \in DOMAIN f.records} |->
                     f.records[k[1]][k[2]]]]

ExperimentName == "exp"

\* Logger.__init__ (lines 49-72): no records, the session's meta saved; run()
\* has set num_of_logged_data to 0.
LogInit ==
    /\ lmeta = [id |-> ExperimentName, subsessions |-> <<>>, records |-> <<>>]
    /\ lfile = MetaDump(lmeta)
    /\ lrecords = <<>>
    /\ lq = <<>>
    /\ lnum = 0
    /\ lout = <<>>
    /\ lexit = FALSE
    /\ lstate = "running"
    /\ lput = [total |-> 0, at_exit |-> 0]

\* An option that is not on the command line, and None.
Absent == "<absent>"

None == "None"

\* main() has not run.
NoCli == [status |-> "none", exit_code |-> 0,
          args |-> [name |-> None, ip |-> None, port |-> 0, id |-> None,
                    wport |-> 0, delete |-> FALSE]]

CliInit == cli = NoCli

\* No get() has been made on the stream as it is.
NoGet == [start |-> 0, end |-> 0, rows |-> <<>>]

\* TabularDataStream.empty(name): no data, an empty timetrack.
TabInit ==
    /\ tdata = <<>>
    /\ ttrack = <<>>
    /\ tnapp = 0
    /\ tgot = NoGet

\* Chunks the loader loads in one behaviour.
MaxLoad == 2

Uuids == 1..MaxLoad

\* The messages of the loader and of the logger: UPDATE/COUNTER for a chunk
\* and META/END.
RunnerMessage(src, type, uuid) == [src |-> src, type |-> type, uuid |-> uuid]

RunnerMessages ==
    {RunnerMessage(src, "COUNTER", u) : src \in {"LOADER", "LOGGER"}, u \in Uuids}
    \cup {RunnerMessage(src, "END", 0) : src \in {"LOADER", "LOGGER"}}

NoMessage == RunnerMessage("", "", 0)

\* SingleRunner after __init__ (lines 62-66), init_loader (lines 145-148),
\* init_logger (lines 177-178) and setup (lines 334-343): the message thread
\* is at the head of its loop and the main thread enters process_data.
RunInit ==
    /\ rload = <<>>
    /\ rlog = <<>>
    /\ rmfl = <<>>
    /\ rmfg = <<>>
    /\ rtoload = <<>>
    /\ rtolog = <<>>
    /\ rmemload = <<>>
    /\ rmemlog = <<>>
    /\ rflag = [loader_finished |-> FALSE, logger_finished |-> FALSE,
                loader_paused |-> FALSE, total_memory_used |-> 0,
                num_processed_data_chunks |-> 0, latest_window_loaded |-> 0,
                num_of_logged_data |-> 0]
    /\ rexit = FALSE
    /\ rmt = [pc |-> "outer", loading_message |-> NoMessage,
              loading_message_new |-> FALSE, logging_message |-> NoMessage,
              logging_message_new |-> FALSE]
    /\ rmain = [pc |-> "get", uuid |-> 0]
    /\ rproc = [loader |-> "loading", loaded |-> 0, logger |-> "running", logged |-> 0]
    /\ rdisp = [m \in RunnerMessages |-> 0]
    /\ rdel = [u \in Uuids |-> 0]

\* A message of the loader or the sorter to the Manager, or none.
DashMessage(type, uuid, last) == [type |-> type, uuid |-> uuid, last |-> last]

NoDashMessage == DashMessage("", 0, FALSE)

\* init_loader (lines 618-648) and init_sorter (lines 650-678): new queues,
\* the flags of the two processes cleared.
PipelineQueues == [loading |-> <<>>, sorting |-> <<>>, from_loading |-> <<>>,
                   from_sorting |-> <<>>]

NothingSent == [loader |-> <<>>, sorter |-> <<>>]

\* The threads at the head of their loops.
MessageThreadStart ==
    [pc |-> "poll_loading", loading_message |-> NoDashMessage,
     loading_message_new |-> FALSE, sorting_message |-> NoDashMessage,
     sorting_message_new |-> FALSE, loader_memory_used |-> 0,
     sorter_memory_used |-> 0]

UpdateContentStart == [pc |-> "loop", uuid |-> 0, entry_time |-> 0]

\* Manager.__init__ (lines 82-115) with no meta.json in logdir: the home
\* page, nothing loaded, no pipeline.
DashInit ==
    /\ dmeta = [file |-> "none", page |-> "homePage", logdir_records |-> "None",
                data_is_loaded |-> FALSE, setups |-> 0, found |-> FALSE, updates |-> 0]
    /\ dq = PipelineQueues
    /\ dsent = NothingSent
    /\ dmem = [loading |-> <<>>, sorting |-> <<>>]
    /\ dflag = [loader_paused |-> FALSE, sorter_paused |-> FALSE,
                stop_everything |-> FALSE, is_play |-> FALSE,
                session_complete |-> FALSE, sorting_bar |-> 0, current_time |-> 0,
                timetrack |-> FALSE]
    /\ dmt = MessageThreadStart
    /\ duc = UpdateContentStart
    /\ dgui = [pc |-> "idle", restarts |-> 0, replay |-> FALSE]
    /\ dproc = [started |-> FALSE, loaded |-> 0, window |-> 0, complete |-> FALSE]

LegacyInit == TabInit /\ RunInit /\ DashInit

AuxInit == PubInit /\ RecInit /\ SvcInit /\ LoopInit /\ LogInit /\ CliInit /\ LegacyInit

ExtInit == MethodInit /\ LoadInit /\ ShutInit /\ UiInit /\ AuxInit

\* ---- the Manager's WebSocket to UI clients (specification 4.8, 6.3) ----
\* Frames a client's send queue holds.
MaxUi == 2

\* ws.max-backpressure-frames: dropped frames after which the client is
\* disconnected.
MaxDrops == 1

\* DataClassJsonMixin.to_dict / from_dict of a WorkerState and of the
\* ManagerState (its workers; the other fields never change).
WorkerState_to_dict(ws) ==
    [id |-> ws.id, ip |-> ws.ip,
     nodes |-> [n \in DOMAIN ws.nodes |-> NodeState_to_dict(ws.nodes[n])]]

WorkerState_from_dict(d) ==
    [id |-> d["id"],
     ip |-> IF "ip" \in DOMAIN d THEN d["ip"] ELSE "",
     nodes |-> IF "nodes" \in DOMAIN d
               THEN [n \in DOMAIN d["nodes"] |-> NodeState_from_dict(d["nodes"][n])]
               ELSE <<>>]

ManagerState_to_dict(workers) ==
    [id |-> "", ip |-> "", port |-> 0,
     workers |-> [w \in DOMAIN workers |-> WorkerState_to_dict(workers[w])]]

ManagerState_from_dict(d) ==
    IF "workers" \in DOMAIN d
    THEN [w \in DOMAIN d["workers"] |-> WorkerState_from_dict(d["workers"][w])]
    ELSE <<>>

\* ManagerState.to_json(): the dict, serialized.
ManagerState_to_json(workers) == [json |-> ManagerState_to_dict(workers)]

\* Mutant: the frame carries the table as it was before the mutation.
StatusUpdate_previous(workers) ==
    [signal |-> "NETWORK_STATUS_UPDATE", data |-> ManagerState_to_dict(mgr)]

\* NETWORK_STATUS_UPDATE: the full ManagerState snapshot.
StatusUpdate(workers) ==
    [signal |-> "NETWORK_STATUS_UPDATE", data |-> ManagerState_to_dict(workers)]

\* A mutation of the ManagerState is broadcast to the subscribed client
\* through its bounded send queue.  With the queue full a frame is dropped
\* (the new one or the oldest queued), and after MaxDrops dropped frames
\* the client is disconnected.
Broadcast(workers) ==
    IF ~uiconn THEN UNCHANGED uiVars
    ELSE IF Len(uiq) < MaxUi
    THEN /\ uiq' = Append(uiq, StatusUpdate(workers))
         /\ UNCHANGED <<uiconn, uiview, uidrops>>
    ELSE /\ uidrops' = uidrops + 1
         /\ uiconn' = (uidrops + 1 < MaxDrops)
         /\ IF uidrops + 1 < MaxDrops
            THEN \/ uiq' = uiq
                 \/ uiq' = Append(Tail(uiq), StatusUpdate(workers))
            ELSE uiq' = <<>>
         /\ UNCHANGED uiview

\* ---- the user's script ----
\* The lifecycle operations, the state each one is issued in, the route it
\* broadcasts, the fsm it waits for, and the state it leaves the session in.
LifecycleOps == {"start", "record", "stop", "collect"}

OpPre(op) ==
    CASE op = "start" -> "committed"
      [] op = "record" -> "previewing"
      [] op = "stop" -> "recording"
      [] op = "collect" -> "stopped"

OpPost(op) ==
    CASE op = "start" -> "previewing"
      [] op = "record" -> "recording"
      [] op = "stop" -> "stopped"
      [] op = "collect" -> "collected"

OpRoute(op) ==
    CASE op = "start" -> "/nodes/start"
      [] op = "record" -> "/nodes/record"
      [] op = "stop" -> "/nodes/stop"
      [] op = "collect" -> "/nodes/collect"

OpTarget(op) ==
    CASE op = "start" -> "PREVIEWING"
      [] op = "record" -> "RECORDING"
      [] op = "stop" -> "STOPPED"
      [] op = "collect" -> "SAVED"

\* The event a Worker's route publishes for a request of the Manager.
RouteEvent(req) ==
    CASE req.route = "/nodes/create" -> create_node_event(req.body)
      [] req.route = "/nodes/destroy" -> destroy_node_event(req.body)
      [] req.route = "/nodes/server_data" -> process_node_server_data_event(req.body)
      [] req.route = "/nodes/start" -> start_nodes_event
      [] req.route = "/nodes/record" -> record_event
      [] req.route = "/nodes/stop" -> stop_nodes_event
      [] req.route = "/nodes/collect" -> Event("collect", NoData)

\* ---- the Manager's view ----
Registered == DOMAIN mgr

ViewFsm(n) ==
    IF n \in DOMAIN cmap /\ cmap[n] \in Registered
       /\ n \in DOMAIN mgr[cmap[n]].nodes
    THEN mgr[cmap[n]].nodes[n].fsm
    ELSE "NONE"

AllView(f) == \A n \in DOMAIN cmap : ViewFsm(n) = f

\* Append the requests rs[w] to each Worker's queue.
Send(rs) == creq' = [w \in Workers |-> creq[w] \o rs[w]]

\* The Nodes in id order (the Manager walks its tables in sorted order).
NodeSeq == <<"n1", "n2">>

\* The Nodes the mapping m places on Worker w, in id order.
NodesOn(m, w) == SelectSeq(NodeSeq, LAMBDA n : n \in DOMAIN m /\ m[n] = w)

CreateRequest(n) == Request("/nodes/create", PickleDumps([id |-> n]))

DestroyRequest(n) == Request("/nodes/destroy", [id |-> n])

\* One request per Node the mapping m places on Worker w.
CreateRequests(m, w) == [i \in 1..Len(NodesOn(m, w)) |-> CreateRequest(NodesOn(m, w)[i])]

DestroyRequests(m, w) == [i \in 1..Len(NodesOn(m, w)) |-> DestroyRequest(NodesOn(m, w)[i])]

\* ---- registration ----
\* Worker.connect(): the registration request leaves the Worker.  Workers
\* connect, or connect again, between sessions.
Worker_connect(w) ==
    /\ wst[w] \in {"new", "connected"}
    /\ cmap = NoMap /\ mop = Idle /\ mrst = NoReset
    /\ wst' = [wst EXCEPT ![w] = "registering"]
    /\ UNCHANGED <<mgr, cw, cproc, csub, creq, cbusy, cmap, mop, mrst, fut, sess>>
    /\ UNCHANGED <<httpVars, extVars, hist, clate>>

WorkerStateOf(w) == [id |-> w, ip |-> WorkerIp(w), nodes |-> cw[w]]

\* Mutant: a registration replaces the table with the one entry.
register_worker_alone(workers, state) ==
    [x \in {state.id} |-> state]

\* The Manager's registration handler: ManagerState.workers[id] = state,
\* and the reply with which the Worker's connect() returns.
register_worker(workers, state) ==
    [x \in DOMAIN workers \cup {state.id} |->
        IF x = state.id THEN state ELSE workers[x]]

Manager_register_worker(w) ==
    /\ wst[w] = "registering"
    /\ mup = "up"
    /\ cmap = NoMap /\ mop = Idle /\ mrst = NoReset
    /\ mgr' = register_worker(mgr, WorkerStateOf(w))
    /\ wst' = [wst EXCEPT ![w] = "connected"]
    /\ UNCHANGED <<cw, cproc, csub, creq, cbusy, cmap, mop, mrst, fut, sess>>
    /\ UNCHANGED <<httpVars, nonUiVars, hist, clate>>
    /\ Broadcast(mgr')

\* Worker.deregister(), between sessions.
Worker_deregister(w) ==
    /\ wst[w] = "connected" /\ w \in Registered
    /\ cmap = NoMap /\ mop = Idle /\ mrst = NoReset /\ creq[w] = <<>>
    /\ mgr' = [x \in Registered \ {w} |-> mgr[x]]
    /\ wst' = [wst EXCEPT ![w] = "new"]
    /\ UNCHANGED <<cw, cproc, csub, creq, cbusy, cmap, mop, mrst, fut, sess>>
    /\ UNCHANGED <<httpVars, nonUiVars, hist, clate>>
    /\ Broadcast(mgr')

\* ---- commit_graph ----
\* Validation, then one create request per Node to the Worker it is mapped to.
Manager_commit_graph ==
    /\ sess = "none" /\ mop = Idle /\ mrst = NoReset
    /\ \E m \in Mappings :
          IF \A n \in NodeIds : m[n] \in Registered
          THEN /\ cmap' = m
               /\ Send([w \in Workers |-> CreateRequests(m, w)])
               /\ mop' = [name |-> "commit", phase |-> "wait_init"]
               /\ fut' = NoFuture
          ELSE /\ fut' = Future("commit", FALSE)
               /\ UNCHANGED <<cmap, creq, mop>>
    /\ UNCHANGED <<mgr, wst, cw, cproc, csub, cbusy, mrst, sess>>
    /\ UNCHANGED <<httpVars, extVars, hist, clate>>

\* The peer table: the fragments GET /nodes/server_data returns, merged.
MergeServerData(ws) ==
    LET frag(w) == create_node_server_data(WorkerStateOf(w)).nodes
        ids == UNION {DOMAIN frag(w) : w \in ws}
    IN [id |-> "manager",
        nodes |-> [n \in ids |-> frag(CHOOSE w \in ws : n \in DOMAIN frag(w))[n]]]

\* Every Node reported INITIALIZED: gather the peer table and broadcast it.
Manager_commit_server_data ==
    /\ mop = [name |-> "commit", phase |-> "wait_init"]
    /\ AllView("INITIALIZED")
    /\ LET hosts == {cmap[n] : n \in DOMAIN cmap}
           table == MergeServerData(hosts)
       IN Send([w \in Workers |->
                  IF w \in hosts THEN <<Request("/nodes/server_data", table)>>
                  ELSE <<>>])
    /\ mop' = [name |-> "commit", phase |-> "wait_ready"]
    /\ UNCHANGED <<mgr, wst, cw, cproc, csub, cbusy, cmap, mrst, fut, sess>>
    /\ UNCHANGED <<httpVars, extVars, hist, clate>>

\* Every Node reported READY: the commit future resolves true.
Manager_commit_done ==
    /\ mop = [name |-> "commit", phase |-> "wait_ready"]
    /\ AllView("READY")
    /\ mop' = Idle
    /\ fut' = [Future("commit", TRUE) EXCEPT !.again = cmap \in hist]
    /\ sess' = "committed"
    /\ hist' = hist \cup {cmap}
    /\ UNCHANGED <<mgr, wst, cw, cproc, csub, creq, cbusy, cmap, mrst>>
    /\ UNCHANGED <<httpVars, extVars, clate>>

\* ---- start / record / stop / collect ----
\* Broadcast the command to every registered Worker.
Manager_lifecycle(op) ==
    /\ sess = OpPre(op) /\ mop = Idle /\ mrst = NoReset
    /\ Send([w \in Workers |->
               IF w \in Registered THEN <<Request(OpRoute(op), NoData)>> ELSE <<>>])
    /\ mop' = [name |-> op, phase |-> "wait"]
    /\ fut' = NoFuture
    /\ UNCHANGED <<mgr, wst, cw, cproc, csub, cbusy, cmap, mrst, sess>>
    /\ UNCHANGED <<httpVars, extVars, hist, clate>>

\* Every Node reported the command's terminal state: the future resolves.
Manager_lifecycle_done ==
    /\ mop.name \in LifecycleOps
    /\ AllView(OpTarget(mop.name))
    /\ fut' = Future(mop.name, TRUE)
    /\ sess' = OpPost(mop.name)
    /\ mop' = Idle
    /\ UNCHANGED <<mgr, wst, cw, cproc, csub, creq, cbusy, cmap, mrst>>
    /\ UNCHANGED <<httpVars, extVars, hist, clate>>

\* ---- reset ----
\* reset(keep_workers): cancel the operation in progress and ask each Worker
\* to destroy the Nodes mapped to it.
Manager_reset(keep) ==
    /\ mrst = NoReset
    /\ Send([w \in Workers |-> DestroyRequests(cmap, w)])
    /\ mrst' = [phase |-> "wait", keep |-> keep,
                during |-> IF mop.name = "commit" THEN mop.phase ELSE mop.name]
    /\ mop' = Idle
    /\ fut' = NoFuture
    /\ UNCHANGED <<mgr, wst, cw, cproc, csub, cbusy, cmap, sess>>
    /\ UNCHANGED <<httpVars, extVars, hist, clate>>

\* Mutant: a reset that keeps the Workers keeps their Nodes in the table.
reset_workers_keeps_nodes(workers, keep) ==
    IF keep THEN workers ELSE <<>>

\* The Manager's table after a reset: the Workers without Nodes, or empty.
reset_workers(workers, keep) ==
    IF keep THEN [w \in DOMAIN workers |-> [workers[w] EXCEPT !.nodes = <<>>]]
    ELSE <<>>

\* Every Worker acknowledged: clear the graph, resolve the reset future.
Manager_reset_done ==
    /\ mrst.phase = "wait"
    /\ \A w \in Workers : creq[w] = <<>>
    /\ mgr' = reset_workers(mgr, mrst.keep)
    /\ wst' = IF mrst.keep THEN wst
              ELSE [w \in Workers |-> IF wst[w] = "connected" THEN "new" ELSE wst[w]]
    /\ cmap' = NoMap
    /\ sess' = "none"
    /\ fut' = [Future("reset", TRUE) EXCEPT !.keep = mrst.keep, !.during = mrst.during]
    /\ mrst' = NoReset
    /\ UNCHANGED <<cw, cproc, csub, creq, cbusy, mop>>
    /\ UNCHANGED <<httpVars, nonUiVars, hist, clate>>
    /\ Broadcast(mgr')

\* ---- the Workers ----
\* Worker w takes up the request at the head of its queue.
Pending(w) == creq[w] # <<>> /\ ~cbusy[w]

HeadEvent(w) == RouteEvent(Head(creq[w]))

\* The request at the head of w's queue is answered.
Answered(w) ==
    /\ creq' = [creq EXCEPT ![w] = Tail(@)]
    /\ cbusy' = [cbusy EXCEPT ![w] = FALSE]

\* POST /nodes/create: register the Node in WorkerState.nodes and spawn it
\* (a socket left over from an earlier process of that id is closed first).
Worker_create_node(w) ==
    /\ Pending(w) /\ HeadEvent(w).type = "create_node"
    /\ LET n == HeadEvent(w).data.node_config.id
       IN IF n \in DOMAIN cw[w]
          THEN UNCHANGED <<cw, cproc, clate>>
          ELSE /\ cw' = [cw EXCEPT ![w] = (n :> NodeState(n)) @@ @]
               /\ cproc' = [cproc EXCEPT ![w][n] = "NULL"]
               /\ clate' = [clate EXCEPT ![w] = @ \ {n}]
    /\ cbusy' = [cbusy EXCEPT ![w] = TRUE]
    /\ UNCHANGED <<mgr, wst, csub, creq, cmap, mop, mrst, fut, sess>>
    /\ UNCHANGED <<httpVars, extVars, hist>>

\* ... and answer once the Node is recorded INITIALIZED (the spawn ack).
Worker_create_ack(w) ==
    /\ creq[w] # <<>> /\ cbusy[w] /\ HeadEvent(w).type = "create_node"
    /\ LET n == HeadEvent(w).data.node_config.id
       IN n \in DOMAIN cw[w] /\ cw[w][n].fsm = "INITIALIZED"
    /\ Answered(w)
    /\ UNCHANGED <<mgr, wst, cw, cproc, csub, cmap, mop, mrst, fut, sess>>
    /\ UNCHANGED <<httpVars, extVars, hist, clate>>

\* POST /nodes/destroy: tell the Node to shut down.
Worker_destroy_node(w) ==
    /\ Pending(w) /\ HeadEvent(w).type = "destroy_node"
    /\ LET n == HeadEvent(w).data.node_id
       IN IF n \in DOMAIN cw[w]
          THEN /\ cproc' = [cproc EXCEPT ![w][n] = "SHUTDOWN"]
               /\ cbusy' = [cbusy EXCEPT ![w] = TRUE]
               /\ UNCHANGED creq
          ELSE /\ Answered(w)
               /\ UNCHANGED cproc
    /\ UNCHANGED <<mgr, wst, cw, csub, cmap, mop, mrst, fut, sess>>
    /\ UNCHANGED <<httpVars, extVars, hist, clate>>

\* ... and reap it once the process has shut down.  The NodeHandler waits on
\* the Node's control channel; the STATUS the Node sent over its socket may
\* not have been handled yet, and is then still in flight after the reap.
Worker_destroy_reap(w) ==
    /\ creq[w] # <<>> /\ cbusy[w] /\ HeadEvent(w).type = "destroy_node"
    /\ LET n == HeadEvent(w).data.node_id
       IN /\ n \in DOMAIN cw[w]
          /\ cw' = [cw EXCEPT ![w] = [x \in DOMAIN @ \ {n} |-> @[x]]]
          /\ cproc' = [cproc EXCEPT ![w][n] = "NONE"]
          /\ csub' = [e \in Edges |-> IF n \in {e[1], e[2]} THEN NoSub ELSE csub[e]]
          /\ clate' = IF cw[w][n].fsm = "SHUTDOWN" THEN clate
                      ELSE [clate EXCEPT ![w] = @ \cup {n}]
    /\ Answered(w)
    /\ UNCHANGED <<mgr, wst, cmap, mop, mrst, fut, sess>>
    /\ UNCHANGED <<httpVars, extVars, hist>>

\* The publisher a consumer connects to for producer p, from the peer table.
Subscribe(table, p) ==
    IF p \in DOMAIN table.nodes THEN table.nodes[p] ELSE NoSub

\* A lifecycle route: every Node of the Worker takes the command.  On the
\* peer table, a Node that connects subscribes to its producers.
Worker_command(w) ==
    /\ Pending(w) /\ HeadEvent(w).type \in LifecycleCommands
    /\ LET ev == HeadEvent(w)
           connects(n) == /\ ev.type = "process_node_server_data"
                          /\ cproc[w][n] = "INITIALIZED"
       IN /\ cproc' = [cproc EXCEPT ![w] = [n \in NodeIds |-> NodeStep(@[n], ev.type)]]
          /\ csub' = [e \in Edges |->
                        IF connects(e[2]) THEN Subscribe(ev.data.data, e[1])
                        ELSE csub[e]]
    /\ Answered(w)
    /\ UNCHANGED <<mgr, wst, cw, cmap, mop, mrst, fut, sess>>
    /\ UNCHANGED <<httpVars, extVars, hist, clate>>

\* A Node process sets up (NULL -> INITIALIZED) or finishes connecting
\* (CONNECTED -> READY).
ClusterNode_advance(w, n) ==
    /\ cproc[w][n] \in {"NULL", "CONNECTED"}
    /\ cproc' = [cproc EXCEPT ![w][n] = IF @ = "NULL" THEN "INITIALIZED" ELSE "READY"]
    /\ UNCHANGED <<mgr, wst, cw, csub, creq, cbusy, cmap, mop, mrst, fut, sess>>
    /\ UNCHANGED <<httpVars, extVars, hist, clate>>

\* The Worker handles a Node's STATUS message (_async_node_status_update).
Worker_node_status(w, n) ==
    /\ cproc[w][n] # "NONE"
    /\ LET msg == StatusMsg(n, cproc[w][n])
           nodes == UpdateNodes(cw[w], NodeState_from_dict(msg.data))
       IN /\ nodes # cw[w]
          /\ cw' = [cw EXCEPT ![w] = nodes]
    /\ UNCHANGED <<mgr, wst, cproc, csub, creq, cbusy, cmap, mop, mrst, fut, sess>>
    /\ UNCHANGED <<httpVars, extVars, hist, clate>>

\* The last STATUS of a reaped Node reaches the Worker.
Worker_late_status(w, n) ==
    /\ n \in clate[w]
    /\ clate' = [clate EXCEPT ![w] = @ \ {n}]
    /\ LET msg == StatusMsg(n, "SHUTDOWN")
       IN cw' = [cw EXCEPT ![w] = UpdateNodes(@, NodeState_from_dict(msg.data))]
    /\ UNCHANGED <<mgr, wst, cproc, csub, creq, cbusy, cmap, mop, mrst, fut, sess>>
    /\ UNCHANGED <<httpVars, extVars, hist>>

\* The Worker reports its changed state; the Manager stores it.
Manager_update_worker(w) ==
    /\ w \in Registered
    /\ mgr[w].nodes # cw[w]
    /\ mgr' = [mgr EXCEPT ![w].nodes = cw[w]]
    /\ UNCHANGED <<wst, cw, cproc, csub, creq, cbusy, cmap, mop, mrst, fut, sess>>
    /\ UNCHANGED <<httpVars, nonUiVars, hist, clate>>
    /\ Broadcast(mgr')

ClusterNext ==
    \/ \E w \in Workers : Worker_connect(w)
    \/ \E w \in Workers : Manager_register_worker(w)
    \/ \E w \in Workers : Worker_deregister(w)
    \/ Manager_commit_graph
    \/ Manager_commit_server_data
    \/ Manager_commit_done
    \/ \E op \in LifecycleOps : Manager_lifecycle(op)
    \/ Manager_lifecycle_done
    \/ \E keep \in BOOLEAN : Manager_reset(keep)
    \/ Manager_reset_done
    \/ \E w \in Workers : Worker_create_node(w)
    \/ \E w \in Workers : Worker_create_ack(w)
    \/ \E w \in Workers : Worker_destroy_node(w)
    \/ \E w \in Workers : Worker_destroy_reap(w)
    \/ \E w \in Workers : Worker_command(w)
    \/ \E w \in Workers, n \in NodeIds : ClusterNode_advance(w, n)
    \/ \E w \in Workers, n \in NodeIds : Worker_node_status(w, n)
    \/ \E w \in Workers, n \in NodeIds : Worker_late_status(w, n)
    \/ \E w \in Workers : Manager_update_worker(w)

\* The cluster, with the Part I Worker left at rest.
InitCluster == ClusterInit /\ HttpInit /\ wstate.port = 0 /\ ExtInit

SpecCluster == InitCluster /\ [][ClusterNext]_vars

\* A step of a Worker, of a Node or of one of the Manager's own coroutines
\* (any step but the user's: connect, deregister, commit, lifecycle, reset).
ClusterProgress ==
    \/ \E w \in Workers : Manager_register_worker(w)
    \/ Manager_commit_server_data
    \/ Manager_commit_done
    \/ Manager_lifecycle_done
    \/ Manager_reset_done
    \/ \E w \in Workers : Worker_create_node(w)
    \/ \E w \in Workers : Worker_create_ack(w)
    \/ \E w \in Workers : Worker_destroy_node(w)
    \/ \E w \in Workers : Worker_destroy_reap(w)
    \/ \E w \in Workers : Worker_command(w)
    \/ \E w \in Workers, n \in NodeIds : ClusterNode_advance(w, n)
    \/ \E w \in Workers, n \in NodeIds : Worker_node_status(w, n)
    \/ \E w \in Workers, n \in NodeIds : Worker_late_status(w, n)
    \/ \E w \in Workers : Manager_update_worker(w)

\* The event loops keep turning: while some Worker, Node or Manager
\* coroutine has a step to take, one of them is taken.  The user is free to
\* issue the next operation or not.
\* One Manager run whose Workers stay: no Worker deregisters and every
\* reset keeps the Workers.
SessionNext ==
    \/ \E w \in Workers : Worker_connect(w)
    \/ \E w \in Workers : Manager_register_worker(w)
    \/ Manager_commit_graph
    \/ Manager_commit_server_data
    \/ Manager_commit_done
    \/ \E op \in LifecycleOps : Manager_lifecycle(op)
    \/ Manager_lifecycle_done
    \/ Manager_reset(TRUE)
    \/ Manager_reset_done
    \/ \E w \in Workers : Worker_create_node(w)
    \/ \E w \in Workers : Worker_create_ack(w)
    \/ \E w \in Workers : Worker_destroy_node(w)
    \/ \E w \in Workers : Worker_destroy_reap(w)
    \/ \E w \in Workers : Worker_command(w)
    \/ \E w \in Workers, n \in NodeIds : ClusterNode_advance(w, n)
    \/ \E w \in Workers, n \in NodeIds : Worker_node_status(w, n)
    \/ \E w \in Workers, n \in NodeIds : Worker_late_status(w, n)
    \/ \E w \in Workers : Manager_update_worker(w)

\* The cluster, with the Part I Worker left at rest.

FairSpecCluster == InitCluster /\ [][SessionNext]_vars /\ WF_vars(ClusterProgress)

(***************************************************************************)
(* SpecHttp: one Worker's HttpServerService serving any client, with the   *)
(* bus, the NodeHandler and the Nodes behind it.                           *)
(***************************************************************************)
HttpRoute ==
    \/ async_create_node_route
    \/ async_destroy_node_route
    \/ async_report_node_server_data
    \/ async_process_node_server_data
    \/ async_step_route
    \/ async_start_nodes_route
    \/ async_record_route
    \/ async_request_method_route
    \/ async_stop_nodes_route
    \/ async_report_node_gather_route
    \/ async_collect_begin
    \/ async_collect_step
    \/ async_shutdown_route

WsRoute ==
    \/ async_node_status_update
    \/ async_node_report_gather
    \/ async_node_report_results

HttpNext ==
    \/ start
    \/ shutdown_task
    \/ HttpRoute
    \/ WsRoute
    \/ Bus_dispatch
    \/ NodeHandler_reap
    \/ Node_advance

\* The Worker of Part I under any configured port, the cluster at rest.
Init == HttpInit /\ ClusterInit /\ ExtInit

SpecHttp == Init /\ [][HttpNext]_vars

(***************************************************************************)
(* SpecWorker: the same Worker seen from its bus: the observers are handed *)
(* lifecycle events in any order (every route publishes unconditionally,   *)
(* so any order of events is one some client produces), and the Nodes      *)
(* report over their sockets.                                              *)
(***************************************************************************)
BusEvents ==
    {create_node_event(PickleDumps([id |-> n])) : n \in NodeIds}
    \cup {destroy_node_event([id |-> n]) : n \in NodeIds}
    \cup {process_node_server_data_event(PeerTable), start_nodes_event,
          record_event, stop_nodes_event, Event("collect", NoData),
          Event("node_gather", NoData)}
    \cup {registered_method_event(RequestMethodMsg(n, m)) :
              n \in NodeIds, m \in MethodNames}

Bus_deliver ==
    /\ UNCHANGED <<clusterVars, extVars>>
    /\ server.serving
    /\ \E ev \in BusEvents : Observe(ev)
    /\ UNCHANGED <<busq, resp, nreq, collecting, tasks>>

\* update_gather / update_results, published by the WS routes, are taken
\* off the bus by their observers.
Bus_drain ==
    /\ UNCHANGED <<clusterVars, extVars>>
    /\ busq # <<>>
    /\ Head(busq).type \in PassiveEvents
    /\ busq' = Tail(busq)
    /\ UNCHANGED <<wstate, server, resp, nreq, collecting, tasks, nodeProc, wsq,
                   destroying>>

WorkerNext ==
    \/ start
    \/ Bus_deliver
    \/ Bus_drain
    \/ (WsRoute /\ Len(busq') <= MaxBus)
    \/ NodeHandler_reap
    \/ Node_advance

\* ... with the port left to the OS.
InitWorker == HttpInit /\ wstate.port = 0 /\ ClusterInit /\ ExtInit

SpecWorker == InitWorker /\ [][WorkerNext]_vars

\* A message a Node sent before its process ended reaches the Worker's
\* socket after the Node's record is gone (or was never made): its last
\* STATUS, or its reply to a gather.
LateMessages(n) ==
    {StatusMsg(n, "SHUTDOWN"), GatherMsg(n, "READY", LatestValue(n))}

Ws_late ==
    /\ UNCHANGED <<clusterVars, extVars>>
    /\ server.serving
    /\ \E n \in NodeIds :
        /\ nodeProc[n] = "NONE"
        /\ WsRoom(n)
        /\ \E msg \in LateMessages(n) : wsq' = [wsq EXCEPT ![n] = Append(@, msg)]
    /\ UNCHANGED <<wstate, server, busq, resp, nreq, collecting, tasks, nodeProc,
                   destroying>>

\* SpecLate: the Worker of SpecWorker, with late messages on its sockets.
LateNext ==
    \/ start
    \/ Bus_deliver
    \/ Bus_drain
    \/ (WsRoute /\ Len(busq') <= MaxBus)
    \/ NodeHandler_reap
    \/ Node_advance
    \/ Ws_late

SpecLate == InitWorker /\ [][LateNext]_vars

\* The Worker's scheduler runs every scheduled task: a created task is
\* resumed on a later turn of the loop.
FairSpecHttp == SpecHttp /\ WF_vars(shutdown_task)

\* A Worker that has started (port 0: the OS chose the port) and records
\* the Nodes of nodes, each with its process in the recorded fsm.
HttpStarted(nodes) ==
    /\ server = Server_async_serve([host |-> "", port |-> 0, serving |-> FALSE,
                                    served |-> FALSE])
    /\ wstate = [id |-> WorkerId, ip |-> server.host, port |-> server.port,
                 nodes |-> nodes]
    /\ busq = <<>>
    /\ resp = NoResp
    /\ nreq = 0
    /\ collecting = <<>>
    /\ tasks = {}
    /\ nodeProc = [n \in NodeIds |->
                      IF n \in DOMAIN nodes THEN nodes[n].fsm ELSE "NONE"]
    /\ wsq = [n \in NodeIds |-> <<>>]
    /\ destroying = {}

(***************************************************************************)
(* Part III.  The registered methods of one Node (specification sections   *)
(* 4.5, 4.9, 4.11; the Node class of test_registered_methods.py).  The     *)
(* requests come in through the route of Part I and the results go back    *)
(* through its REPORT_RESULTS handler.  NodeHandler_registered_method of    *)
(* Part I is one dispatch, run and report of this part taken as one step.  *)
(***************************************************************************)
\* The Node of the fixture worker_with_reg.
TheNode == "n1"

\* The methods requested in this part: one concurrent, one blocking.
DispatchMethods == {"printout", "set_value"}

\* Steps a Node takes from the value it was last given.
MaxStep == 2

Invocation(rid, ev) ==
    [rid |-> rid, method |-> ev.data.method_name, params |-> ev.data.params]

\* REPORT_RESULTS as the Node sends it: {node_id, output, correlation_id}.
MethodResultsMsg(n, out, cid) ==
    [signal |-> "REPORT_RESULTS",
     data |-> [node_id |-> n, output |-> out, correlation_id |-> cid]]

\* A blocking (or reset) invocation is running.
Quiesced == \E i \in nrun : MethodStyle(i.method) # "concurrent"

\* POST /nodes/registered_methods for the Node.
Method_route ==
    \E m \in DispatchMethods : request_method_route(TheNode, m)

\* NodeHandler.registered_method: give the invocation a request id, put it
\* on the Node's control channel and await its result.
NodeHandler_dispatch_method(ev) ==
    /\ ev.type = "registered_method"
    /\ nrid' = nrid + 1
    /\ ninq' = Append(ninq, Invocation(nrid + 1, ev))
    /\ waiting' = Append(waiting, nrid + 1)
    /\ UNCHANGED <<wsq, nval, nstep, nrun, delivered, produced, nsince>>

\* The observer of update_results: the event carries the Node's id and the
\* output; the result goes to the oldest request waiting on that Node.
NodeHandler_update_results(ev) ==
    /\ ev.type = "update_results"
    /\ waiting # <<>>
    /\ delivered' = (Head(waiting) :> ev.data.output) @@ delivered
    /\ waiting' = Tail(waiting)
    /\ UNCHANGED <<wsq, nval, nstep, ninq, nrun, nrid, produced, nsince>>

Method_dispatch ==
    /\ UNCHANGED nonMethodVars
    /\ busq # <<>>
    /\ busq' = Tail(busq)
    /\ \/ NodeHandler_dispatch_method(Head(busq))
       \/ NodeHandler_update_results(Head(busq))
    /\ UNCHANGED <<wstate, server, resp, nreq, collecting, tasks, nodeProc, destroying>>

\* Mutant: a blocking method begins without waiting for the step to end.
BlockingMayBegin_unserialized == nrun = {}

\* A blocking method begins once the Node is quiesced: no step and no
\* other method is running.
BlockingMayBegin == ~nstep.running /\ nrun = {}

\* The Node takes the next invocation off its control channel: a
\* concurrent method starts on the Node loop beside the step, a blocking
\* one once the Node is quiesced.
Node_method_begin ==
    /\ UNCHANGED nonMethodVars
    /\ ninq # <<>>
    /\ ~Quiesced
    /\ MethodStyle(Head(ninq).method) # "concurrent" => BlockingMayBegin
    /\ nrun' = nrun \cup {Head(ninq)}
    /\ ninq' = Tail(ninq)
    /\ UNCHANGED <<httpVars, nval, nstep, nrid, waiting, delivered, produced, nsince>>

\* What a method returns and the value it leaves
\* (test_registered_methods.py lines 32-48).
MethodOutput(i) == IF i.method = "printout" THEN nval ELSE MethodReturn(i.method, i.params)

MethodValue(i) == IF i.method = "set_value" THEN i.params["value"] ELSE nval

\* A running method returns; the Node reports the result.
Node_method_return ==
    /\ UNCHANGED nonMethodVars
    /\ \E i \in nrun :
        /\ WsRoom(TheNode)
        /\ nrun' = nrun \ {i}
        /\ nval' = MethodValue(i)
        /\ produced' = (i.rid :> MethodOutput(i)) @@ produced
        /\ nsince' = IF i.method = "set_value"
                     THEN [set |-> TRUE, value |-> i.params["value"]]
                     ELSE nsince
        /\ wsq' = [wsq EXCEPT ![TheNode] =
                      Append(@, MethodResultsMsg(TheNode, MethodOutput(i), i.rid))]
    /\ UNCHANGED <<wstate, server, busq, resp, nreq, collecting, tasks, nodeProc,
                   destroying, nstep, ninq, nrid, waiting, delivered>>

\* step(): time.sleep(0.5) ...
Node_step_begin ==
    /\ UNCHANGED nonMethodVars
    /\ nodeProc[TheNode] \in {"PREVIEWING", "RECORDING"}
    /\ ~nstep.running
    /\ ~Quiesced
    /\ nval % 100 < MaxStep
    /\ nstep' = [running |-> TRUE]
    /\ UNCHANGED <<httpVars, nval, ninq, nrun, nrid, waiting, delivered, produced, nsince>>

\* ... self.value += 1; return self.value
Node_step_end ==
    /\ UNCHANGED nonMethodVars
    /\ nstep.running
    /\ nval' = nval + 1
    /\ nstep' = NoStep
    /\ nsince' = NoSet
    /\ UNCHANGED <<httpVars, ninq, nrun, nrid, waiting, delivered, produced>>

MethodNext ==
    \/ Method_route
    \/ Method_dispatch
    \/ Node_method_begin
    \/ Node_method_return
    \/ Node_step_begin
    \/ Node_step_end
    \/ async_node_report_results

\* The Worker of the fixture worker_with_reg: serving, its one Node created
\* and started.
InitMethods ==
    /\ ClusterInit
    /\ ExtInit
    /\ HttpStarted((TheNode :> NodeSnapshot(TheNode, "PREVIEWING")))

SpecMethods == InitMethods /\ [][MethodNext]_vars

(***************************************************************************)
(* Part IV.  POST /packages/load (http_server_service.py lines 149-196)    *)
(* and the uploads of the Manager's packages, which the Server records in  *)
(* file_transfer_records as the chunks arrive (specification section 4.4). *)
(***************************************************************************)
Packages == {"a", "b"}

\* msg["packages"] of a request.
PackageLists == {<<>>, <<"a">>, <<"a", "b">>}

\* What a reply made of web.HTTPError() carries: the class has no status
\* code of its own (-1), and a server that cannot send it answers 500.
ErrorStatuses == {-1, 500}

\* ---- the Server's upload endpoint ----
\* The first chunk of a package arrives: its record is created.
Upload_begin(p) ==
    /\ UNCHANGED nonLoadVars
    /\ server.serving
    /\ p \notin DOMAIN ftr
    /\ ftr' = (p :> [complete |-> FALSE, ondisk |-> FALSE]) @@ ftr
    /\ UNCHANGED <<httpVars, syspath, loading>>

\* Chunks are written to dst_filepath: the file exists, not yet whole.
Upload_chunk(p) ==
    /\ UNCHANGED nonLoadVars
    /\ p \in DOMAIN ftr /\ ~ftr[p].ondisk
    /\ ftr' = [ftr EXCEPT ![p].ondisk = TRUE]
    /\ UNCHANGED <<httpVars, syspath, loading>>

\* The last chunk is written: the record is marked complete.
Upload_complete(p) ==
    /\ UNCHANGED nonLoadVars
    /\ p \in DOMAIN ftr /\ ftr[p].ondisk /\ ~ftr[p].complete
    /\ ftr' = [ftr EXCEPT ![p].complete = TRUE]
    /\ UNCHANGED <<httpVars, syspath, loading>>

\* ---- the handler ----
Loader(packages, rest, phase) == [packages |-> packages, rest |-> rest, phase |-> phase]

\* msg = await request.json(); with no package to load the handler returns
\* web.HTTPOk() at once, otherwise it starts waiting for the first one.
async_load_sent_packages_begin ==
    /\ UNCHANGED nonLoadVars
    /\ Accepting
    /\ nreq' = nreq + 1
    /\ \E pl \in PackageLists :
          IF pl = <<>>
          THEN /\ resp' = HTTPOk(nreq + 1, "/packages/load")
               /\ loading' = (nreq + 1 :> Loader(pl, pl, "done")) @@ loading
          ELSE /\ loading' = (nreq + 1 :> Loader(pl, pl, "arrive")) @@ loading
               /\ UNCHANGED resp
    /\ UNCHANGED <<wstate, server, busq, collecting, tasks, nodeProc, wsq, destroying,
                   ftr, syspath>>

\* First wait (lines 157-169): the record of the package exists ...
async_load_arrived(r) ==
    /\ UNCHANGED nonLoadVars
    /\ loading[r].phase = "arrive"
    /\ Head(loading[r].rest) \in DOMAIN ftr
    /\ loading' = [loading EXCEPT ![r].phase = "complete"]
    /\ UNCHANGED <<httpVars, ftr, syspath>>

\* ... or the wait times out: return web.HTTPError().
async_load_arrive_timeout(r) ==
    /\ UNCHANGED nonLoadVars
    /\ loading[r].phase = "arrive"
    /\ Head(loading[r].rest) \notin DOMAIN ftr
    /\ \E st \in ErrorStatuses : resp' = Response(r, "/packages/load", st, NoData)
    /\ loading' = [loading EXCEPT ![r].phase = "failed"]
    /\ UNCHANGED <<wstate, server, busq, nreq, collecting, tasks, nodeProc, wsq,
                   destroying, ftr, syspath>>

\* Lines 185-196, after the second wait, whatever its outcome (the outcome
\* is only logged): sys.path.insert(0, path); then the next package, or
\* return web.HTTPOk() after the last.
async_load_install(r) ==
    /\ syspath' = <<Head(loading[r].rest)>> \o syspath
    /\ IF Tail(loading[r].rest) = <<>>
       THEN /\ resp' = HTTPOk(r, "/packages/load")
            /\ loading' = [loading EXCEPT ![r].rest = <<>>, ![r].phase = "done"]
       ELSE /\ loading' = [loading EXCEPT ![r].rest = Tail(@), ![r].phase = "arrive"]
            /\ UNCHANGED resp

\* Second wait (lines 177-183): the record is marked complete ...
async_load_completed(r) ==
    /\ UNCHANGED nonLoadVars
    /\ loading[r].phase = "complete"
    /\ ftr[Head(loading[r].rest)].complete
    /\ async_load_install(r)
    /\ UNCHANGED <<wstate, server, busq, nreq, collecting, tasks, nodeProc, wsq,
                   destroying, ftr>>

\* ... or the wait times out.  The assert of lines 190-192 passes when the
\* file is on disk, whole or not; with no file yet it raises and the
\* request fails with 500.
async_load_complete_timeout(r) ==
    /\ UNCHANGED nonLoadVars
    /\ loading[r].phase = "complete"
    /\ ~ftr[Head(loading[r].rest)].complete
    /\ IF ftr[Head(loading[r].rest)].ondisk
       THEN async_load_install(r)
       ELSE /\ resp' = Response(r, "/packages/load", 500, NoData)
            /\ loading' = [loading EXCEPT ![r].phase = "failed"]
            /\ UNCHANGED syspath
    /\ UNCHANGED <<wstate, server, busq, nreq, collecting, tasks, nodeProc, wsq,
                   destroying, ftr>>

LoadNext ==
    \/ start
    \/ \E p \in Packages : Upload_begin(p)
    \/ \E p \in Packages : Upload_chunk(p)
    \/ \E p \in Packages : Upload_complete(p)
    \/ async_load_sent_packages_begin
    \/ \E r \in DOMAIN loading : async_load_arrived(r)
    \/ \E r \in DOMAIN loading : async_load_arrive_timeout(r)
    \/ \E r \in DOMAIN loading : async_load_completed(r)
    \/ \E r \in DOMAIN loading : async_load_complete_timeout(r)

SpecLoad == Init /\ [][LoadNext]_vars

(***************************************************************************)
(* Part V.  shutdown() of the Manager and of its Worker (specification     *)
(* sections 4.1, 4.7, 8; test_connectivity.py lines 23-28 and 56-83).  The *)
(* Manager stops a connected Worker with POST /shutdown, which the Worker  *)
(* answers first (Part I); the Worker's services observe the shutdown      *)
(* event on its bus.  The user's thread is in one call at a time.          *)
(***************************************************************************)
Actors == {"manager", "worker"}

\* shutdown() calls the user makes on one actor.
MaxCalls == 2

\* The variables of the other extensions, and of a session of Part II.
nonShutVars == <<methodVars, loadVars, uiVars, auxVars>>

sessionVars == <<cw, cproc, csub, creq, cbusy, cmap, mop, mrst, fut, sess, hist, clate>>

Returned(who) == Cardinality({i \in 1..Len(uret) : uret[i].who = who})

Down(who) == IF who = "manager" THEN mup = "down" ELSE wup = "down"

\* The call returns ok to the user's thread.
Return(who, ok) ==
    /\ uret' = Append(uret, [who |-> who, ok |-> ok])
    /\ ucall' = NoCall

\* The user calls who.shutdown() (connect() has returned).
User_shutdown(who) ==
    /\ ucall = NoCall
    /\ wst[WorkerId] # "registering"
    /\ Returned(who) < MaxCalls
    /\ ucall' = [who |-> who, phase |-> "called", mark |-> 0]
    /\ UNCHANGED <<httpVars, clusterVars, nonShutVars, mup, wup, uret>>

\* shutdown() on an actor that has shut down: nothing to do, success.
shutdown_again(who) ==
    /\ ucall.phase = "called" /\ ucall.who = who
    /\ Down(who)
    /\ Return(who, TRUE)
    /\ UNCHANGED <<httpVars, clusterVars, nonShutVars, mup, wup>>

\* Mutant: the Manager stops its Worker whether or not it is still connected.
WorkersToStop_all(workers) == {WorkerId}

\* The Workers the Manager stops: those still registered.
WorkersToStop(workers) == DOMAIN workers

\* Manager.shutdown(): stop all Workers (unless already disconnected) ...
Manager_shutdown_begin ==
    /\ ucall.phase = "called" /\ ucall.who = "manager"
    /\ mup = "up"
    /\ mup' = "stopping"
    /\ ucall' = IF WorkerId \in WorkersToStop(mgr)
                THEN [ucall EXCEPT !.phase = "posting", !.mark = nreq]
                ELSE [ucall EXCEPT !.phase = "teardown"]
    /\ UNCHANGED <<httpVars, clusterVars, nonShutVars, wup, uret>>

\* ... the Worker has answered the Manager's POST /shutdown ...
Manager_stop_replied ==
    /\ ucall.phase = "posting"
    /\ resp.route = "/shutdown" /\ resp.req > ucall.mark /\ resp.status = 200
    /\ ucall' = [ucall EXCEPT !.phase = "teardown"]
    /\ UNCHANGED <<httpVars, clusterVars, nonShutVars, mup, wup, uret>>

\* ... then tear down the services, in reverse dependency order.
Manager_teardown ==
    /\ ucall.phase = "teardown"
    /\ mup' = "down"
    /\ Return("manager", TRUE)
    /\ UNCHANGED <<httpVars, clusterVars, nonShutVars, wup>>

\* Worker.shutdown(): publish shutdown on the Worker's bus and wait for the
\* services.
Worker_shutdown_begin ==
    /\ ucall.phase = "called" /\ ucall.who = "worker"
    /\ wup = "up"
    /\ Publish(Event("shutdown", NoData))
    /\ ucall' = [ucall EXCEPT !.phase = "waiting"]
    /\ UNCHANGED <<wstate, server, resp, nreq, collecting, tasks, nodeProc, wsq,
                   destroying, clusterVars, nonShutVars, mup, wup, uret>>

Worker_shutdown_return ==
    /\ ucall.phase = "waiting"
    /\ wup = "down"
    /\ Return("worker", TRUE)
    /\ UNCHANGED <<httpVars, clusterVars, nonShutVars, mup, wup>>

\* The observers of shutdown on the Worker's bus: HttpServerService.shutdown
\* stops the server; the HttpClientService deregisters from the Manager if
\* the Worker is registered and the Manager still answers; the Worker is
\* down.  On a Worker that is down already only the server is asked again.
Worker_shutdown_dispatch ==
    /\ busq # <<>>
    /\ busq' = Tail(busq)
    /\ shutdown(Head(busq))
    /\ wup' = "down"
    /\ IF wup = "up" /\ mup # "down" /\ WorkerId \in DOMAIN mgr
       THEN /\ mgr' = [x \in DOMAIN mgr \ {WorkerId} |-> mgr[x]]
            /\ wst' = [wst EXCEPT ![WorkerId] = "new"]
            /\ Broadcast(mgr')
       ELSE UNCHANGED <<mgr, wst, uiVars>>
    /\ UNCHANGED <<resp, nreq, collecting, tasks, sessionVars, methodVars, loadVars,
                   auxVars, mup, ucall, uret>>

\* What the user does: connect the Worker, call shutdown().
ShutdownUser ==
    \/ (ucall = NoCall /\ wup = "up" /\ mup = "up" /\ Worker_connect(WorkerId))
    \/ \E who \in Actors : User_shutdown(who)

\* What the Manager's and the Worker's loops do.
ShutdownProgress ==
    \/ Manager_register_worker(WorkerId)
    \/ \E who \in Actors : shutdown_again(who)
    \/ Manager_shutdown_begin
    \/ (ucall.phase = "posting" /\ async_shutdown_route)
    \/ Manager_stop_replied
    \/ Manager_teardown
    \/ shutdown_task
    \/ Worker_shutdown_begin
    \/ Worker_shutdown_dispatch
    \/ Worker_shutdown_return

ShutdownNext == ShutdownUser \/ ShutdownProgress

\* A Manager and a started Worker, not yet connected.
InitShutdown == ClusterInit /\ ExtInit /\ HttpStarted(<<>>)

\* The loops of both processes keep turning.
FairSpecShutdown ==
    InitShutdown /\ [][ShutdownNext]_vars /\ WF_vars(ShutdownProgress)

(***************************************************************************)
(* Part VI.  A UI client on the Manager's WebSocket (specification         *)
(* sections 3, 4.8, 6.3; test_ws_client.py): one Worker registers,         *)
(* deregisters, is committed to and reset while the client listens.        *)
(***************************************************************************)
\* client.async_connect(), to a Manager just created (the fixture
\* test_ws_client).
Ui_connect ==
    /\ ~uiconn /\ uidrops = 0 /\ uiview = NoView
    /\ mgr = <<>> /\ fut = NoFuture /\ \A w \in Workers : wst[w] = "new"
    /\ uiconn' = TRUE
    /\ UNCHANGED <<httpVars, clusterVars, nonUiVars, uiq, uiview, uidrops>>

\* The client's handler of NETWORK_STATUS_UPDATE:
\* self.network_state = ManagerState.from_dict(msg["data"]).
Ui_receive ==
    /\ uiconn
    /\ uiq # <<>>
    /\ uiview' = ManagerState_from_dict(Head(uiq).data)
    /\ uiq' = Tail(uiq)
    /\ UNCHANGED <<httpVars, clusterVars, nonUiVars, uiconn, uidrops>>

UiNext ==
    \/ Ui_connect
    \/ Ui_receive
    \/ Worker_connect(WorkerId)
    \/ Manager_register_worker(WorkerId)
    \/ Worker_deregister(WorkerId)
    \/ Manager_commit_graph
    \/ Manager_commit_server_data
    \/ Manager_commit_done
    \/ \E keep \in BOOLEAN : Manager_reset(keep)
    \/ Manager_reset_done
    \/ Worker_create_node(WorkerId)
    \/ Worker_create_ack(WorkerId)
    \/ Worker_destroy_node(WorkerId)
    \/ Worker_destroy_reap(WorkerId)
    \/ Worker_command(WorkerId)
    \/ \E n \in NodeIds : ClusterNode_advance(WorkerId, n)
    \/ \E n \in NodeIds : Worker_node_status(WorkerId, n)
    \/ \E n \in NodeIds : Worker_late_status(WorkerId, n)
    \/ Manager_update_worker(WorkerId)

\* The client's loop keeps reading its socket.
FairSpecUi == InitCluster /\ [][UiNext]_vars /\ WF_vars(Ui_receive)

(***************************************************************************)
(* Part VII: a Publisher and a connected Subscriber (specification 3, 4.4; *)
(* test_subscriber_publisher.py).                                          *)
(***************************************************************************)
\* Chunks published in one behaviour.
MaxPub == 2

\* pubsub.send-queue-depth: chunks the Publisher's outbound queue holds.
SendDepth == 1

\* Pixel values and the images of the model: h x w arrays, as rows of pixels
\* (the test publishes a random 100 x 100 x 3 uint8 array).
Pixels == {0, 255}

Images ==
    {<<<<a, b>>>> : a \in Pixels, b \in Pixels}
        \cup {<<<<a>>, <<b>>>> : a \in Pixels, b \in Pixels}

\* DataChunk() followed by add(name, value, content_type): the payload maps a
\* name to {value, content_type}; content_type defaults to "text".
DataChunk_add(chunk, name, value, content_type) ==
    [payload |-> [k \in DOMAIN chunk.payload \cup {name} |->
                     IF k = name THEN [value |-> value, content_type |-> content_type]
                     ELSE chunk.payload[k]]]

EmptyChunk == [payload |-> <<>>]

\* The fixtures text_data_chunk and image_data_chunk.
text_data_chunk == DataChunk_add(EmptyChunk, "msg", "HELLO", "text")

image_data_chunk(img) == DataChunk_add(EmptyChunk, "test_image", img, "image")

Chunks == {text_data_chunk} \cup {image_data_chunk(img) : img \in Images}

\* The binary framing of an image: its shape and its pixels in row-major
\* order, the buffer being handed over as it is (zero copy).
Image_shape(img) == <<Len(img), Len(img[1])>>

RECURSIVE Image_ravel(_)
Image_ravel(img) ==
    IF img = <<>> THEN <<>> ELSE Head(img) \o Image_ravel(Tail(img))

Image_reshape_flat(shape, buf) == <<buf>>

Image_reshape(shape, buf) ==
    [r \in 1..shape[1] |-> [c \in 1..shape[2] |-> buf[(r - 1) * shape[2] + c]]]

\* Serialization of one payload entry and of a chunk: an image goes as
\* {shape, buffer}, any other content as its pickled value.
Entry_serialize(e) ==
    IF e.content_type = "image"
    THEN [content_type |-> "image", shape |-> Image_shape(e.value),
          buf |-> Image_ravel(e.value)]
    ELSE [content_type |-> e.content_type, pickled |-> PickleDumps(e.value)]

Entry_deserialize(f) ==
    IF f.content_type = "image"
    THEN [value |-> Image_reshape(f.shape, f.buf), content_type |-> "image"]
    ELSE [value |-> PickleLoads(f.pickled), content_type |-> f.content_type]

DataChunk_serialize(chunk) ==
    [frames |-> [k \in DOMAIN chunk.payload |-> Entry_serialize(chunk.payload[k])]]

DataChunk_deserialize(msg) ==
    [payload |-> [k \in DOMAIN msg.frames |-> Entry_deserialize(msg.frames[k])]]

\* The variables outside Part VII.
nonPubVars == <<coreVars, recVars, svcVars, loopVars, logVars, cliVars, legacyVars>>

\* publisher.publish(data_chunk): non-blocking; on overflow the oldest queued
\* chunk is dropped, so that the latest one is kept.
Publisher_publish(chunk) ==
    /\ Len(published) < MaxPub
    /\ published' = Append(published, chunk)
    /\ pubq' = IF Len(pubq) < SendDepth
               THEN Append(pubq, DataChunk_serialize(chunk))
               ELSE Append(Tail(pubq), DataChunk_serialize(chunk))
    /\ UNCHANGED <<sublatest, subrets, subto, nonPubVars>>

\* The Subscriber's receiving thread takes the next message off the socket
\* and keeps it as the most recent chunk.
Subscriber_poll ==
    /\ pubq # <<>>
    /\ sublatest' = DataChunk_deserialize(Head(pubq))
    /\ pubq' = Tail(pubq)
    /\ UNCHANGED <<published, subrets, subto, nonPubVars>>

\* subscriber.receive(timeout): returns the most recent chunk ...
Subscriber_receive ==
    /\ sublatest # NoChunk
    /\ subrets' = Append(subrets, sublatest)
    /\ sublatest' = NoChunk
    /\ UNCHANGED <<published, pubq, subto, nonPubVars>>

\* ... or times out when none has arrived.
Subscriber_receive_timeout ==
    /\ sublatest = NoChunk
    /\ ~subto
    /\ subto' = TRUE
    /\ UNCHANGED <<published, pubq, sublatest, subrets, nonPubVars>>

PubSubNext ==
    \/ \E chunk \in Chunks : Publisher_publish(chunk)
    \/ Subscriber_poll
    \/ Subscriber_receive
    \/ Subscriber_receive_timeout

SpecPubSub == Init /\ [][PubSubNext]_vars

(***************************************************************************)
(* Part VIII: the JSON record writer and a recording Node (specification   *)
(* 4.9, 4.10; test_json.py, test_image.py).                                *)
(***************************************************************************)
\* write() calls made on a record directly (the test makes 5).
MaxWrites == 3

\* Steps the recording Node takes.
MaxRecSteps == 2

\* Python scalars: <<type, text>>.
PyNone == <<"NoneType", "">>

PyStr(x) == <<"str", x>>

PyInt(x) == <<"int", x>>

\* The data of the entries (test_json.py lines 44-64), in a few variants.
JsonData ==
    {[content |-> PyStr("application/json"), response |-> PyInt(r),
      count |-> PyInt("20"), next |-> PyStr("http://swapi.dev/api/people/?page=2"),
      previous |-> pv,
      results |-> <<[name |-> PyStr("Luke Skywalker"), height |-> PyStr("172")],
                    [name |-> PyStr("C-3PO"), height |-> PyStr("167")]>>]
       : r \in {"2", "3"}, pv \in {PyNone, PyStr("null")}}

\* json.dumps / json.loads of a scalar: a string is quoted, an int is written
\* in digits, None is written null.
Scalar_dumps(v) ==
    CASE v[1] = "str" -> <<"quoted", v[2]>>
      [] v[1] = "int" -> <<"bare", v[2]>>
      [] v[1] = "NoneType" -> <<"bare", "null">>

Scalar_loads(t) ==
    IF t[1] = "quoted" THEN PyStr(t[2])
    ELSE IF t[2] = "null" THEN PyNone
    ELSE PyInt(t[2])

\* json.dumps / json.loads of the data of an entry: one line of text.
json_dumps(d) ==
    [content |-> Scalar_dumps(d.content), response |-> Scalar_dumps(d.response),
     count |-> Scalar_dumps(d.count), next |-> Scalar_dumps(d.next),
     previous |-> Scalar_dumps(d.previous),
     results |-> [i \in 1..Len(d.results) |->
                     [k \in DOMAIN d.results[i] |-> Scalar_dumps(d.results[i][k])]]]

json_loads(line) ==
    [content |-> Scalar_loads(line.content), response |-> Scalar_loads(line.response),
     count |-> Scalar_loads(line.count), next |-> Scalar_loads(line.next),
     previous |-> Scalar_loads(line.previous),
     results |-> [i \in 1..Len(line.results) |->
                     [k \in DOMAIN line.results[i] |-> Scalar_loads(line.results[i][k])]]]

\* A RecordEntry of dtype json.
JsonEntry(uuid, name, data) ==
    [uuid |-> uuid, name |-> name, data |-> data, dtype |-> "json"]

\* The file a JSON record of a name writes.
JsonlPath(name) == <<name, ".jsonl">>

\* The lines of a file, none when it does not exist.
Lines(files, path) == IF path \in DOMAIN files THEN files[path] ELSE <<>>

\* The files after file path holds the given lines.
WithFile(files, path, lines) ==
    [f \in DOMAIN files \cup {path} |-> IF f = path THEN lines ELSE files[f]]

JSONRecord_write_truncating(files, chunk) ==
    WithFile(files, JsonlPath(chunk.name), <<json_dumps(chunk.data)>>)

\* JSONRecord(dir, name).write(chunk): the data of the chunk is appended to
\* <name>.jsonl as one line.
JSONRecord_write(files, chunk) ==
    WithFile(files, JsonlPath(chunk.name),
             Append(Lines(files, JsonlPath(chunk.name)), json_dumps(chunk.data)))

\* The write() calls on the record of a name so far, with one more.
Written(name) == IF name \in DOMAIN jwritten THEN jwritten[name] ELSE <<>>

NoteWritten(log, chunk) ==
    [n \in DOMAIN log \cup {chunk.name} |->
        IF n = chunk.name
        THEN Append(IF n \in DOMAIN log THEN log[n] ELSE <<>>, chunk)
        ELSE log[n]]

\* The variables outside Part VIII.
nonRecVars == <<coreVars, pubVars, svcVars, loopVars, logVars, cliVars, legacyVars>>

\* test_image_record (test_json.py lines 67-75): json_r.write(json_chunk) on
\* the record "test-5".
Test_write(data) ==
    /\ Len(Written("test-5")) < MaxWrites
    /\ LET chunk == JsonEntry(Len(Written("test-5")) + 1, "test-5", data)
       IN /\ disk' = JSONRecord_write(disk, chunk)
          /\ jwritten' = NoteWritten(jwritten, chunk)
    /\ UNCHANGED <<rfsm, rq, rsaves, rrec, nonRecVars>>

JsonNext == \E data \in JsonData : Test_write(data)

SpecJson == Init /\ [][JsonNext]_vars

\* ---- the recording Node ----
\* The commands of the test: start, record, stop.
RecCommands == {"start_nodes", "record", "stop_nodes"}

\* entrypoint.emit(command): the Node's fsm advances.
RecNode_command(cmd) ==
    /\ rfsm # "SHUTDOWN"
    /\ NodeStep(rfsm, cmd) # rfsm
    /\ rfsm' = NodeStep(rfsm, cmd)
    /\ UNCHANGED <<disk, jwritten, rq, rsaves, rrec, nonRecVars>>

\* One step of the Node: step() calls save_json(name="test", data), which
\* puts a RecordEntry on the record queue.  test_node_save_image_single_step
\* steps a Node that was never told to record and finds its file on disk:
\* the save is accepted whatever the fsm is.
RecNode_step(data) ==
    /\ rfsm \in {"READY", "PREVIEWING", "RECORDING"}
    /\ rsaves < MaxRecSteps
    /\ rsaves' = rsaves + 1
    /\ rrec' = IF rfsm = "RECORDING" THEN rrec + 1 ELSE rrec
    /\ rq' = Append(rq, JsonEntry(rsaves + 1, "test", data))
    /\ UNCHANGED <<disk, jwritten, rfsm, nonRecVars>>

\* The writer task takes one entry off the record queue and writes it.
Record_write ==
    /\ rq # <<>>
    /\ disk' = JSONRecord_write(disk, Head(rq))
    /\ jwritten' = NoteWritten(jwritten, Head(rq))
    /\ rq' = Tail(rq)
    /\ UNCHANGED <<rfsm, rsaves, rrec, nonRecVars>>

\* The files and the log of writes after the whole queue has been written.
RECURSIVE Flushed(_, _)
Flushed(files, q) ==
    IF q = <<>> THEN files ELSE Flushed(JSONRecord_write(files, Head(q)), Tail(q))

RECURSIVE FlushedLog(_, _)
FlushedLog(log, q) ==
    IF q = <<>> THEN log ELSE FlushedLog(NoteWritten(log, Head(q)), Tail(q))

\* node.shutdown(): the record queue is flushed and the writers are closed.
RecNode_shutdown ==
    /\ rfsm # "SHUTDOWN"
    /\ disk' = Flushed(disk, rq)
    /\ jwritten' = FlushedLog(jwritten, rq)
    /\ rq' = <<>>
    /\ rfsm' = "SHUTDOWN"
    /\ UNCHANGED <<rsaves, rrec, nonRecVars>>

RecordNext ==
    \/ \E cmd \in RecCommands : RecNode_command(cmd)
    \/ \E data \in JsonData : RecNode_step(data)
    \/ Record_write
    \/ RecNode_shutdown

SpecRecord == Init /\ [][RecordNext]_vars

(***************************************************************************)
(* Part IX: ServiceGroup (src/chimerapy/service.py).                       *)
(***************************************************************************)
\* Names an order argument lists.
MaxOrder == 2

\* The services that may be members, and a name that never is one.
ServiceNames == {"http", "node", "record"}

OrderNames == ServiceNames \cup {"absent"}

Orders == UNION {[1..k -> OrderNames] : k \in 0..MaxOrder}

\* The names of a sequence.
Range(q) == {q[i] : i \in 1..Len(q)}

Selected_unordered(data, order) == data

\* The members apply calls the method on, in calling order (lines 21-30):
\* with an order, each listed name that is a key of data; without, the
\* values of data.
RECURSIVE Selected(_, _)
Selected(data, order) ==
    IF order = <<>> THEN data
    ELSE (IF Head(order) \in Range(data) THEN <<Head(order)>> ELSE <<>>)
            \o (IF Tail(order) = <<>> THEN <<>> ELSE Selected(data, Tail(order)))

\* The variables outside Part IX.
nonSvcVars == <<coreVars, pubVars, recVars, loopVars, logVars, cliVars, legacyVars>>

\* group[name] = service: a new key goes last, a key already there keeps
\* its place.
ServiceGroup_setitem(name) ==
    /\ sgdata' = IF name \in Range(sgdata) THEN sgdata ELSE Append(sgdata, name)
    /\ sgdata' # sgdata
    /\ UNCHANGED <<sgorder, sgcalls, sgapplied, nonSvcVars>>

\* ServiceGroup.apply(method_name, order): each func() is called in turn.
ServiceGroup_apply(order) ==
    /\ sgorder' = order
    /\ sgcalls' = Selected(sgdata, order)
    /\ sgapplied' = "apply"
    /\ UNCHANGED <<sgdata, nonSvcVars>>

\* ServiceGroup.async_apply(method_name, order): one task per selected
\* member, created in the same order, all gathered.
ServiceGroup_async_apply(order) ==
    /\ sgorder' = order
    /\ sgcalls' = Selected(sgdata, order)
    /\ sgapplied' = "async_apply"
    /\ UNCHANGED <<sgdata, nonSvcVars>>

ServiceNext ==
    \/ \E name \in ServiceNames : ServiceGroup_setitem(name)
    \/ \E order \in Orders : ServiceGroup_apply(order)
    \/ \E order \in Orders : ServiceGroup_async_apply(order)

SpecService == Init /\ [][ServiceNext]_vars

(***************************************************************************)
(* Part X: AsyncLoopThread.exec_noncoro (specification 4.3, 5;             *)
(* test_threaded_async.py).  The caller's thread schedules put(queue) on   *)
(* the loop's thread and may wait on the handle it was given.              *)
(***************************************************************************)
\* exec_noncoro calls made in one behaviour.
MaxExec == 3

\* The variables outside Part X.
nonLoopVars == <<coreVars, pubVars, recVars, svcVars, logVars, cliVars, legacyVars>>

NewCall_preset(waitable) ==
    [waitable |-> waitable, runs |-> 0, set |-> waitable, waited |-> "no", seen |-> 0]

\* A call just made: its callback has not run, its handle is not set and
\* has not been waited on.
NewCall(waitable) ==
    [waitable |-> waitable, runs |-> 0, set |-> FALSE, waited |-> "no", seen |-> 0]

\* thread.exec_noncoro(put, args=[queue], waitable): the callable is handed
\* to the loop; with waitable the caller gets a handle back.
exec_noncoro(waitable) ==
    /\ Len(alcalls) < MaxExec
    /\ alcalls' = Append(alcalls, NewCall(waitable))
    /\ already' = Append(already, Len(alcalls) + 1)
    /\ UNCHANGED <<alrun, alqsize, nonLoopVars>>

\* The loop takes the next callable and runs it: put(queue) puts one item.
Loop_run ==
    /\ alrun = 0
    /\ already # <<>>
    /\ alrun' = Head(already)
    /\ already' = Tail(already)
    /\ alqsize' = alqsize + 1
    /\ alcalls' = [alcalls EXCEPT ![Head(already)].runs = @ + 1]
    /\ UNCHANGED nonLoopVars

\* The callable has returned: the handle of a waitable call is set.
Loop_finished ==
    /\ alrun # 0
    /\ alcalls' = [alcalls EXCEPT ![alrun].set = alcalls[alrun].waitable]
    /\ alrun' = 0
    /\ UNCHANGED <<already, alqsize, nonLoopVars>>

\* finished.wait(timeout) returns true once the handle is set; the caller
\* then reads queue.qsize().
Handle_wait(c) ==
    /\ alcalls[c].waitable /\ alcalls[c].waited = "no"
    /\ alcalls[c].set
    /\ alcalls' = [alcalls EXCEPT ![c].waited = "true", ![c].seen = alqsize]
    /\ UNCHANGED <<already, alrun, alqsize, nonLoopVars>>

\* finished.wait(timeout) returns false: the timeout passed with the handle
\* not set.
Handle_wait_timeout(c) ==
    /\ alcalls[c].waitable /\ alcalls[c].waited = "no"
    /\ ~alcalls[c].set
    /\ alcalls' = [alcalls EXCEPT ![c].waited = "timeout"]
    /\ UNCHANGED <<already, alrun, alqsize, nonLoopVars>>

LoopProgress == Loop_run \/ Loop_finished

LoopNext ==
    \/ \E waitable \in BOOLEAN : exec_noncoro(waitable)
    \/ Loop_run
    \/ Loop_finished
    \/ \E c \in 1..Len(alcalls) : Handle_wait(c)
    \/ \E c \in 1..Len(alcalls) : Handle_wait_timeout(c)

FairSpecLoop == Init /\ [][LoopNext]_vars /\ WF_vars(LoopProgress)

(***************************************************************************)
(* Part XI: the Logger process (src/pymmdt/logger.py).                     *)
(***************************************************************************)
\* Chunks put on the logging queue in one behaviour.
MaxChunks == 3

\* The variables outside Part XI.
nonLogVars == <<coreVars, pubVars, recVars, svcVars, loopVars, cliVars, legacyVars>>

\* The data chunks: data is a frame whose rows carry _time_; a frame may be
\* empty.
LogSessions == {"root", "s1"}

LogFrames == {<<>>, <<1>>, <<2, 3>>}

LogChunks ==
    [session_name : LogSessions, name : {"x"}, dtype : {"tabular", "image"},
     data : LogFrames]

\* str(row._time_)
TimeStr(t) == <<"str", t>>

\* (session, name) of a chunk, and whether flush sees it for the first time
\* (line 122).
LogKey(data) == <<data.session_name, data.name>>

IsFirstFlush(records, data) == LogKey(data) \notin DOMAIN records

\* A function with one more, or one changed, value.
WithKey(f, k, v) == [x \in DOMAIN f \cup {k} |-> IF x = k THEN v ELSE f[x]]

\* Lines 129-131: a session other than root joins subsessions once.
WithSubsession(subsessions, session_name) ==
    IF session_name = "root" \/ session_name \in {subsessions[i] : i \in 1..Len(subsessions)}
    THEN subsessions
    ELSE Append(subsessions, session_name)

\* Logger.flush(data), lines 119-166, as the state it leaves: the meta data,
\* meta.json, the records, and whether it returned (ok) or raised.
\* First time (lines 124-149): the session joins subsessions and the entry
\* is created before data.iloc[0] is read, which raises IndexError on an
\* empty frame.  Otherwise (lines 154-166): the assert on the entry's class,
\* then end_time is renewed by a frame that is not empty.
flush(meta, file, records, data) ==
    IF IsFirstFlush(records, data)
    THEN LET subs == WithSubsession(meta.subsessions, data.session_name)
             entry == [cls |-> data.dtype, chunks |-> <<>>, closed |-> FALSE]
             recs == WithKey(records, LogKey(data), entry)
         IN IF data.data = <<>>
            THEN [meta |-> [meta EXCEPT !.subsessions = subs], file |-> file,
                  records |-> recs, ok |-> FALSE]
            ELSE LET m == [meta EXCEPT
                              !.subsessions = subs,
                              !.records = WithKey(@, LogKey(data),
                                  [dtype |-> data.dtype,
                                   start_time |-> TimeStr(data.data[1]),
                                   end_time |-> TimeStr(data.data[Len(data.data)])])]
                 IN [meta |-> m, file |-> MetaDump(m),
                     records |-> WithKey(recs, LogKey(data),
                                         [entry EXCEPT !.chunks = <<data>>]),
                     ok |-> TRUE]
    ELSE IF records[LogKey(data)].cls # data.dtype
    THEN [meta |-> meta, file |-> file, records |-> records, ok |-> FALSE]
    ELSE IF data.data # <<>> /\ LogKey(data) \notin DOMAIN meta.records
    THEN [meta |-> meta, file |-> file, records |-> records, ok |-> FALSE]
    ELSE LET m == IF data.data # <<>>
                  THEN [meta EXCEPT !.records[LogKey(data)].end_time =
                                        TimeStr(data.data[Len(data.data)])]
                  ELSE meta
         IN [meta |-> m,
             file |-> IF data.data # <<>> THEN MetaDump(m) ELSE file,
             records |-> [records EXCEPT ![LogKey(data)].chunks = Append(@, data)],
             ok |-> TRUE]

\* message_logging_status / message_logger_finished.
CounterMessage(n) == [header |-> "UPDATE", type |-> "COUNTER", num_of_logged_data |-> n]

EndMessage == [header |-> "META", type |-> "END", num_of_logged_data |-> 0]

\* message_from_queue.put(message, timeout=0.5): the message is queued, or
\* the queue stayed full and the message is given up.
Sent(msg) == lout' = Append(lout, msg) \/ lout' = lout

\* A producer puts a chunk on the logging queue.
Producer_put(data) ==
    /\ lput.total < MaxChunks
    /\ lstate # "finished"
    /\ lq' = Append(lq, data)
    /\ lput' = [lput EXCEPT !.total = @ + 1]
    /\ UNCHANGED <<lmeta, lfile, lrecords, lnum, lout, lexit, lstate, nonLogVars>>

\* The END message of the parent is processed: thread_exit is set.
Logger_end ==
    /\ ~lexit
    /\ lexit' = TRUE
    /\ lput' = [lput EXCEPT !.at_exit = lput.total]
    /\ UNCHANGED <<lmeta, lfile, lrecords, lq, lnum, lout, lstate, nonLogVars>>

\* run(), lines 180-192: one chunk is taken, flushed, counted and reported.
\* A flush that raises ends the process.
Logger_run_flush ==
    /\ lstate = "running"
    /\ lq # <<>>
    /\ LET r == flush(lmeta, lfile, lrecords, Head(lq))
       IN /\ lmeta' = r.meta
          /\ lfile' = r.file
          /\ lrecords' = r.records
          /\ lq' = Tail(lq)
          /\ IF r.ok
             THEN /\ lnum' = lnum + 1
                  /\ Sent(CounterMessage(lnum + 1))
                  /\ UNCHANGED lstate
             ELSE /\ lstate' = "crashed"
                  /\ UNCHANGED <<lnum, lout>>
    /\ UNCHANGED <<lexit, lput, nonLogVars>>

BreakCondition_exit_only == lexit

\* Line 198: thread_exit is set and the logging queue is empty.
BreakCondition == lexit /\ lq = <<>>

\* shutdown(), lines 208-213: every entry is closed.
Logger_shutdown(records) == [k \in DOMAIN records |-> [records[k] EXCEPT !.closed = TRUE]]

\* run(), lines 198-206: the loop is left, META/END is sent and the entries
\* are closed.
Logger_run_break ==
    /\ lstate = "running"
    /\ BreakCondition
    /\ Sent(EndMessage)
    /\ lrecords' = Logger_shutdown(lrecords)
    /\ lstate' = "finished"
    /\ UNCHANGED <<lmeta, lfile, lq, lnum, lexit, lput, nonLogVars>>

LoggerNext ==
    \/ \E data \in LogChunks : Producer_put(data)
    \/ Logger_end
    \/ Logger_run_flush
    \/ Logger_run_break

SpecLogger == Init /\ [][LoggerNext]_vars

(***************************************************************************)
(* Part XII: the Worker entry point (src/chimerapy/entry/worker.py).       *)
(***************************************************************************)
\* The command lines: each option with its text, or absent.
CommandLines ==
    [name : {Absent, "alice", "bob"}, ip : {"10.0.0.9", "10.0.0.7"},
     port : {Absent, "9000", "9001"}, id : {Absent, "w1"},
     wport : {Absent, "8080", "9000", "9001"},
     delete : {Absent, "True", "False", ""}]

\* type=int: the number a text denotes.
ParseInt(text) ==
    CASE text = "8080" -> 8080
      [] text = "9000" -> 9000
      [] text = "9001" -> 9001

\* type=bool: bool(text), true for every text that is not empty.
ParseBool(text) == text # ""

\* parser.parse_args() (lines 15-30): the defaults of the options that are
\* absent; a required option that is absent is an error.
ArgsValid(argv) == argv.name # Absent /\ argv.ip # Absent /\ argv.port # Absent

parse_args(argv) ==
    [name |-> argv.name, ip |-> argv.ip, port |-> ParseInt(argv.port),
     id |-> IF argv.id = Absent THEN None ELSE argv.id,
     wport |-> IF argv.wport = Absent THEN 8080 ELSE ParseInt(argv.wport),
     delete |-> IF argv.delete = Absent THEN TRUE ELSE ParseBool(argv.delete)]

\* Worker(name, delete_temp, id) (line 36): no port is handed over, so the
\* Worker's state has the port the class configures by default.
Worker_new(name, delete_temp, id, default_port) ==
    [id |-> IF id = None THEN WorkerId ELSE id, ip |-> "", port |-> default_port,
     nodes |-> <<>>]

\* main(), lines 15-36: the arguments are parsed (argparse exits with code
\* 2 when they are invalid) and the Worker is created.
main(argv) ==
    /\ cli.status = "none"
    /\ IF ArgsValid(argv)
       THEN LET d_args == parse_args(argv)
            IN /\ cli' = [status |-> "created", exit_code |-> 0, args |-> d_args]
               /\ \E p \in ConfiguredPorts :
                     wstate' = Worker_new(d_args.name, d_args.delete, d_args.id, p)
               /\ server' = [host |-> "", port |-> wstate'.port, serving |-> FALSE,
                             served |-> FALSE]
       ELSE /\ cli' = [cli EXCEPT !.status = "exited", !.exit_code = 2]
            /\ UNCHANGED <<wstate, server>>
    /\ UNCHANGED <<busq, resp, nreq, collecting, tasks, nodeProc, wsq, destroying,
                   clusterVars, methodVars, loadVars, shutVars, uiVars,
                   pubVars, recVars, svcVars, loopVars, logVars, legacyVars>>

\* worker.connect(host, port) (line 37) starts the Worker's services: the
\* HTTP server is served by HttpServerService.start.
main_connect ==
    /\ cli.status = "created"
    /\ ~server.served
    /\ server' = Server_async_serve(server)
    /\ wstate' = [wstate EXCEPT !.ip = server'.host, !.port = server'.port]
    /\ Publish(Event("after_server_startup", NoData))
    /\ cli' = [cli EXCEPT !.status = "connected"]
    /\ UNCHANGED <<resp, nreq, collecting, tasks, nodeProc, wsq, destroying,
                   clusterVars, methodVars, loadVars, shutVars, uiVars,
                   pubVars, recVars, svcVars, loopVars, logVars, legacyVars>>

\* worker.idle() returns and worker.shutdown() (lines 38-39) stops the
\* server; main returns.
main_shutdown ==
    /\ cli.status = "connected"
    /\ server' = Server_async_shutdown(server)
    /\ cli' = [cli EXCEPT !.status = "exited"]
    /\ UNCHANGED <<wstate, busq, resp, nreq, collecting, tasks, nodeProc, wsq,
                   destroying, clusterVars, methodVars, loadVars, shutVars, uiVars,
                   pubVars, recVars, svcVars, loopVars, logVars, legacyVars>>

EntryNext ==
    \/ \E argv \in CommandLines : main(argv)
    \/ main_connect
    \/ main_shutdown

SpecEntry == InitWorker /\ [][EntryNext]_vars

(***************************************************************************)
(* Part XIII: a TabularDataStream (src/pymmdt/tabular/data_stream.py),     *)
(* made by empty() and filled by append().                                 *)
(***************************************************************************)
\* append calls in one behaviour, and rows of one appended frame.
MaxAppends == 2

MaxRows == 2

\* The variables outside Part XIII.
nonTabVars == <<coreVars, pubVars, recVars, svcVars, loopVars, logVars, cliVars, runVars,
                dashVars>>

\* The times of the rows (_time_) and the window limits.
Times == 1..3

Limits == 1..4

\* The rows of a frame: the time and the rest of the row.
Rows == [time : Times, value : {"a", "b"}]

Frames == UNION {[1..n -> Rows] : n \in 1..MaxRows}

\* Lines 181-187: the timetrack of the appended frame, ds_index counting
\* from 0 (range(len(time_column_data))).
append_timetrack(append_data) ==
    [i \in 1..Len(append_data) |-> [time |-> append_data[i].time, ds_index |-> i - 1]]

\* TabularDataStream.append, lines 170-194.
TabularDataStream_append(append_data) ==
    /\ tnapp < MaxAppends
    /\ ttrack' = ttrack \o append_timetrack(append_data)
    /\ tdata' = tdata \o append_data
    /\ tnapp' = tnapp + 1
    /\ tgot' = NoGet
    /\ UNCHANGED <<nonTabVars>>

\* Lines 157-159: the rows of the timetrack inside the window.
InWindow(row, start_time, end_time) == row.time >= start_time /\ row.time < end_time

\* Lines 162-165: data.iloc[data_index], the rows of data at the positions
\* the selected timetrack rows name (iloc counts from 0).
RECURSIVE Iloc(_, _, _, _)
Iloc(data, track, start_time, end_time) ==
    IF track = <<>> THEN <<>>
    ELSE LET rest == Iloc(data, Tail(track), start_time, end_time)
         IN IF InWindow(Head(track), start_time, end_time)
            THEN <<data[Head(track).ds_index + 1]>> \o rest
            ELSE rest

\* TabularDataStream.get, lines 153-168.
TabularDataStream_get(start_time, end_time) ==
    /\ end_time > start_time
    /\ tgot' = [start |-> start_time, end |-> end_time,
                rows |-> Iloc(tdata, ttrack, start_time, end_time)]
    /\ UNCHANGED <<tdata, ttrack, tnapp, nonTabVars>>

TabularNext ==
    \/ \E append_data \in Frames : TabularDataStream_append(append_data)
    \/ \E start_time, end_time \in Limits : TabularDataStream_get(start_time, end_time)

SpecTabular == Init /\ [][TabularNext]_vars

(***************************************************************************)
(* Part XIV: a SingleRunner (src/pymmdt/runner.py): its message thread     *)
(* (check_messages), its main thread (process_data, then shutdown), the    *)
(* Logger process (src/pymmdt/logger.py) and the loader process, which is  *)
(* seen through the queues it shares with the runner.                      *)
(***************************************************************************)
\* max_message_queue_size of the two queues the processes report on.
MsgCap == 1

\* total_available_memory, and the memory usage every chunk reports.
Available == 1

ChunkMemory == 1

\* The variables outside Part XIV.
nonRunVars == <<coreVars, pubVars, recVars, svcVars, loopVars, logVars, cliVars, tabVars,
                dashVars>>

\* The items of the loading queue: a data chunk with its uuid, or 'END'.
LoadedChunk(uuid) == [item |-> "chunk", uuid |-> uuid]

EndItem == [item |-> "END", uuid |-> 0]

\* del chunks[uuid]
Without(chunks, uuid) == [u \in DOMAIN chunks \ {uuid} |-> chunks[u]]

\* sum(list(chunks.values()))
RECURSIVE SumValues(_)
SumValues(chunks) ==
    IF DOMAIN chunks = {} THEN 0
    ELSE LET u == CHOOSE x \in DOMAIN chunks : TRUE
         IN chunks[u] + SumValues(Without(chunks, u))

\* queue.put(message, timeout=0.5) of a process (logger.py lines 93-96 and
\* 110-113): the message is queued, or the queue stayed full and the
\* message is given up.
PutTimeout(q, msg) == IF Len(q) < MsgCap THEN Append(q, msg) ELSE q

\* Mutant: the loader's COUNTER is recorded without its memory entry.
respond_loader_message_counter_forgets(chunks, uuid, data_memory_usage) == chunks

\* respond_loader_message_counter, lines 239-241.
respond_loader_message_counter(chunks, uuid, data_memory_usage) ==
    WithKey(chunks, uuid, data_memory_usage)

\* Mutant: the back-pressure test does not look at loader_paused.
BackPressure_unlatched(used, paused) ==
    IF used > Available THEN "PAUSE"
    ELSE IF used < Available THEN "RESUME"
    ELSE "NONE"

\* Lines 316-323: the back-pressure message a pass of check_messages sends.
BackPressure(used, paused) ==
    IF used > Available /\ ~paused THEN "PAUSE"
    ELSE IF used < Available /\ paused THEN "RESUME"
    ELSE "NONE"

\* ---- check_messages (lines 255-323), the message thread ----
\* Line 265: the test of the outer loop.
check_messages_outer ==
    /\ rmt.pc = "outer"
    /\ rmt' = [rmt EXCEPT !.pc = IF rexit THEN "done" ELSE "inner"]
    /\ UNCHANGED <<rload, rlog, rmfl, rmfg, rtoload, rtolog, rmemload, rmemlog, rflag,
                   rexit, rmain, rproc, rdisp, rdel, nonRunVars>>

\* Lines 269-290: the test of the inner loop and one round of it: both
\* queues are asked for a message; a round without a message sleeps and
\* tests again.  When thread_exit is set the inner loop is not entered and
\* the flags and messages stay as the last round left them.
check_messages_inner ==
    /\ rmt.pc = "inner"
    /\ IF rexit
       THEN /\ rmt' = [rmt EXCEPT !.pc = "loading"]
            /\ UNCHANGED <<rmfl, rmfg>>
       ELSE LET lnew == rmfl # <<>>
                gnew == rmfg # <<>>
            IN /\ rmt' = [pc |-> IF lnew \/ gnew THEN "loading" ELSE "inner",
                          loading_message |-> IF lnew THEN Head(rmfl)
                                              ELSE rmt.loading_message,
                          loading_message_new |-> lnew,
                          logging_message |-> IF gnew THEN Head(rmfg)
                                              ELSE rmt.logging_message,
                          logging_message_new |-> gnew]
               /\ rmfl' = IF lnew THEN Tail(rmfl) ELSE rmfl
               /\ rmfg' = IF gnew THEN Tail(rmfg) ELSE rmfg
    /\ UNCHANGED <<rload, rlog, rtoload, rtolog, rmemload, rmemlog, rflag, rexit,
                   rmain, rproc, rdisp, rdel, nonRunVars>>

\* Lines 293-300: the loading message is dispatched when the flag says it
\* is new (respond_loader_message_counter / respond_loader_message_end).
check_messages_loading ==
    /\ rmt.pc = "loading"
    /\ rmt' = [rmt EXCEPT !.pc = "logging"]
    /\ LET msg == rmt.loading_message
       IN IF rmt.loading_message_new
          THEN /\ rdisp' = [rdisp EXCEPT ![msg] = @ + 1]
               /\ IF msg.type = "COUNTER"
                  THEN /\ rmemload' = respond_loader_message_counter(rmemload, msg.uuid,
                                                                     ChunkMemory)
                       /\ rflag' = [rflag EXCEPT !.latest_window_loaded = msg.uuid]
                  ELSE /\ rflag' = [rflag EXCEPT !.loader_finished = TRUE]
                       /\ UNCHANGED rmemload
          ELSE UNCHANGED <<rdisp, rmemload, rflag>>
    /\ UNCHANGED <<rload, rlog, rmfl, rmfg, rtoload, rtolog, rmemlog, rexit, rmain,
                   rproc, rdel, nonRunVars>>

\* Lines 303-310: the logging message is dispatched when the flag says it
\* is new; respond_logger_message_counter (lines 243-244) stores the count
\* and goes on to wait for the chunk's entry, respond_logger_message_end
\* (lines 252-253) sets logger_finished.
check_messages_logging ==
    /\ rmt.pc = "logging"
    /\ LET msg == rmt.logging_message
       IN IF rmt.logging_message_new
          THEN /\ rdisp' = [rdisp EXCEPT ![msg] = @ + 1]
               /\ IF msg.type = "COUNTER"
                  THEN /\ rflag' = [rflag EXCEPT !.num_of_logged_data = msg.uuid]
                       /\ rmt' = [rmt EXCEPT !.pc = "wait_uuid"]
                  ELSE /\ rflag' = [rflag EXCEPT !.logger_finished = TRUE]
                       /\ rmt' = [rmt EXCEPT !.pc = "regulate"]
          ELSE /\ rmt' = [rmt EXCEPT !.pc = "regulate"]
               /\ UNCHANGED <<rdisp, rflag>>
    /\ UNCHANGED <<rload, rlog, rmfl, rmfg, rtoload, rtolog, rmemload, rmemlog, rexit,
                   rmain, rproc, rdel, nonRunVars>>

\* respond_logger_message_counter, lines 245-247: wait until the chunk has
\* its entry, then delete it.
respond_logger_message_counter_wait ==
    /\ rmt.pc = "wait_uuid"
    /\ rmt.logging_message.uuid \in DOMAIN rmemlog
    /\ rmemlog' = Without(rmemlog, rmt.logging_message.uuid)
    /\ rmt' = [rmt EXCEPT !.pc = "regulate"]
    /\ UNCHANGED <<rload, rlog, rmfl, rmfg, rtoload, rtolog, rmemload, rflag, rexit,
                   rmain, rproc, rdisp, rdel, nonRunVars>>

\* Lines 312-323: the memory in use is summed and the loader is paused or
\* resumed (message_pause_loader / message_resume_loader, lines 198-220).
check_messages_regulate ==
    /\ rmt.pc = "regulate"
    /\ rmt' = [rmt EXCEPT !.pc = "outer"]
    /\ LET used == SumValues(rmemlog) + SumValues(rmemload)
           message == BackPressure(used, rflag.loader_paused)
       IN /\ rflag' = [rflag EXCEPT
                          !.total_memory_used = used,
                          !.loader_paused = IF message = "PAUSE" THEN TRUE
                                            ELSE IF message = "RESUME" THEN FALSE
                                            ELSE @]
          /\ rtoload' = IF message = "NONE" THEN rtoload ELSE Append(rtoload, message)
    /\ UNCHANGED <<rload, rlog, rmfl, rmfg, rtolog, rmemload, rmemlog, rexit, rmain,
                   rproc, rdisp, rdel, nonRunVars>>

\* ---- the main thread: run() is in process_data, then in shutdown ----
\* process_data, lines 403-407: the next item of the loading queue.
process_data_get ==
    /\ rmain.pc = "get"
    /\ rload # <<>>
    /\ rload' = Tail(rload)
    /\ rmain' = IF Head(rload) = EndItem THEN [pc |-> "shutdown", uuid |-> 0]
                ELSE [pc |-> "wait", uuid |-> Head(rload).uuid]
    /\ UNCHANGED <<rlog, rmfl, rmfg, rtoload, rtolog, rmemload, rmemlog, rflag, rexit,
                   rmt, rproc, rdisp, rdel, nonRunVars>>

\* process_data, lines 414-422: wait for the chunk's entry, delete it, step
\* the pipe (which logs a chunk on the logging queue, or does not) and
\* count the chunk.
process_data_step ==
    /\ rmain.pc = "wait"
    /\ rmain.uuid \in DOMAIN rmemload
    /\ rmemload' = Without(rmemload, rmain.uuid)
    /\ rdel' = [rdel EXCEPT ![rmain.uuid] = @ + 1]
    /\ \/ UNCHANGED <<rlog, rmemlog>>
       \/ /\ rlog' = Append(rlog, rmain.uuid)
          /\ rmemlog' = WithKey(rmemlog, rmain.uuid, ChunkMemory)
    /\ rflag' = [rflag EXCEPT !.num_processed_data_chunks = @ + 1]
    /\ rmain' = [pc |-> "get", uuid |-> 0]
    /\ UNCHANGED <<rload, rmfl, rmfg, rtoload, rtolog, rexit, rmt, rproc, rdisp,
                   nonRunVars>>

\* shutdown, line 369 (message_end_loading_and_logging, lines 222-233).
shutdown_send_end ==
    /\ rmain.pc = "shutdown"
    /\ rtoload' = Append(rtoload, "END")
    /\ rtolog' = Append(rtolog, "END")
    /\ rmain' = [rmain EXCEPT !.pc = "sd_wait"]
    /\ UNCHANGED <<rload, rlog, rmfl, rmfg, rmemload, rmemlog, rflag, rexit, rmt,
                   rproc, rdisp, rdel, nonRunVars>>

\* shutdown, lines 372-382: the loop is left when both have finished.
shutdown_wait ==
    /\ rmain.pc = "sd_wait"
    /\ rflag.loader_finished /\ rflag.logger_finished
    /\ rmain' = [rmain EXCEPT !.pc = "sd_set"]
    /\ UNCHANGED <<rload, rlog, rmfl, rmfg, rtoload, rtolog, rmemload, rmemlog, rflag,
                   rexit, rmt, rproc, rdisp, rdel, nonRunVars>>

\* shutdown, line 385.
shutdown_set_exit ==
    /\ rmain.pc = "sd_set"
    /\ rexit' = TRUE
    /\ rmain' = [rmain EXCEPT !.pc = "join"]
    /\ UNCHANGED <<rload, rlog, rmfl, rmfg, rtoload, rtolog, rmemload, rmemlog, rflag,
                   rmt, rproc, rdisp, rdel, nonRunVars>>

\* shutdown, lines 388-392: the loader, the logger and the message thread
\* are joined.
shutdown_join ==
    /\ rmain.pc = "join"
    /\ rproc.loader = "finished" /\ rproc.logger = "finished" /\ rmt.pc = "done"
    /\ rmain' = [rmain EXCEPT !.pc = "done"]
    /\ UNCHANGED <<rload, rlog, rmfl, rmfg, rtoload, rtolog, rmemload, rmemlog, rflag,
                   rexit, rmt, rproc, rdisp, rdel, nonRunVars>>

\* ---- the loader process, as the runner's handlers see it ----
\* A window is loaded: the chunk goes on the loading queue and its COUNTER
\* on the message queue (the loader waits while that queue is full).
Loader_load ==
    /\ rproc.loader = "loading"
    /\ rproc.loaded < MaxLoad
    /\ Len(rmfl) < MsgCap
    /\ rload' = Append(rload, LoadedChunk(rproc.loaded + 1))
    /\ rmfl' = Append(rmfl, RunnerMessage("LOADER", "COUNTER", rproc.loaded + 1))
    /\ rproc' = [rproc EXCEPT !.loaded = @ + 1]
    /\ UNCHANGED <<rlog, rmfg, rtoload, rtolog, rmemload, rmemlog, rflag, rexit, rmt,
                   rmain, rdisp, rdel, nonRunVars>>

\* The last window is behind: "END" goes on the loading queue.
Loader_end ==
    /\ rproc.loader = "loading"
    /\ rload' = Append(rload, EndItem)
    /\ rproc' = [rproc EXCEPT !.loader = "ended"]
    /\ UNCHANGED <<rlog, rmfl, rmfg, rtoload, rtolog, rmemload, rmemlog, rflag, rexit,
                   rmt, rmain, rdisp, rdel, nonRunVars>>

\* END has come from the runner: the loader reports META/END and ends.
Loader_finish ==
    /\ rproc.loader = "ended"
    /\ \E i \in 1..Len(rtoload) : rtoload[i] = "END"
    /\ Len(rmfl) < MsgCap
    /\ rmfl' = Append(rmfl, RunnerMessage("LOADER", "END", 0))
    /\ rproc' = [rproc EXCEPT !.loader = "finished"]
    /\ UNCHANGED <<rload, rlog, rmfg, rtoload, rtolog, rmemload, rmemlog, rflag, rexit,
                   rmt, rmain, rdisp, rdel, nonRunVars>>

\* ---- the Logger process (logger.py) ----
\* run, lines 180-192: a chunk is taken and flushed, and its COUNTER is sent
\* (message_logging_status, lines 78-96).
Logger_run_chunk ==
    /\ rproc.logger = "running"
    /\ rlog # <<>>
    /\ rlog' = Tail(rlog)
    /\ rmfg' = PutTimeout(rmfg, RunnerMessage("LOGGER", "COUNTER", Head(rlog)))
    /\ rproc' = [rproc EXCEPT !.logged = @ + 1]
    /\ UNCHANGED <<rload, rmfl, rtoload, rtolog, rmemload, rmemlog, rflag, rexit, rmt,
                   rmain, rdisp, rdel, nonRunVars>>

\* run, lines 198-206: END has come and the logging queue is empty; META/END
\* is sent (message_logger_finished, lines 98-113) and the process ends.
Logger_run_finish ==
    /\ rproc.logger = "running"
    /\ rtolog # <<>>
    /\ rlog = <<>>
    /\ rmfg' = PutTimeout(rmfg, RunnerMessage("LOGGER", "END", 0))
    /\ rproc' = [rproc EXCEPT !.logger = "finished"]
    /\ UNCHANGED <<rload, rlog, rmfl, rtoload, rtolog, rmemload, rmemlog, rflag, rexit,
                   rmt, rmain, rdisp, rdel, nonRunVars>>

MessageThread ==
    \/ check_messages_outer
    \/ check_messages_inner
    \/ check_messages_loading
    \/ check_messages_logging
    \/ respond_logger_message_counter_wait
    \/ check_messages_regulate

MainThread ==
    \/ process_data_get
    \/ process_data_step
    \/ shutdown_send_end
    \/ shutdown_wait
    \/ shutdown_set_exit
    \/ shutdown_join

LoaderProcess == Loader_load \/ Loader_end \/ Loader_finish

LoggerProcess == Logger_run_chunk \/ Logger_run_finish

RunnerNext == MessageThread \/ MainThread \/ LoaderProcess \/ LoggerProcess

SpecRunner == Init /\ [][RunnerNext]_vars

\* Every thread and process that can run does run.
FairSpecRunner ==
    /\ SpecRunner
    /\ WF_vars(MessageThread)
    /\ WF_vars(MainThread)
    /\ WF_vars(LoaderProcess)
    /\ WF_vars(LoggerProcess)

(***************************************************************************)
(* Part XV: the dashboard Manager (src/pymmdt/app/pylib/manager.py): its   *)
(* meta_update timer, its message thread (check_messages), its content     *)
(* thread (update_content), the play/pause and restart slots of the GUI    *)
(* thread, and the loader and sorter processes as the Manager's handlers   *)
(* see them.                                                               *)
(***************************************************************************)
nonDashVars == <<coreVars, pubVars, recVars, svcVars, loopVars, logVars, cliVars, tabVars,
                 runVars>>

\* Chunks the loader loads over the life of one pipeline.
MaxDashLoad == 2

\* restart() calls over the life of one pipeline.
MaxRestarts == 1

\* meta_update calls that change what the Manager holds.
MaxMetaUpdates == 5

\* loader_memory_ratio * total_available_memory, in chunks.
LoaderLimit == 1

\* (1 - loader_memory_ratio) * total_available_memory, in chunks.
SorterLimit == 1

\* The contents meta.json may have.
MetaFiles == {"m1", "m2"}

\* A message the Manager puts on a message_to_*_queue, and who put it.
SentBy(type, by) == [type |-> type, by |-> by]

\* ---- meta.json, written and removed by the experiment ----
WriteMeta ==
    /\ \E m \in MetaFiles :
           /\ m # dmeta.file
           /\ dmeta' = [dmeta EXCEPT !.file = m]
    /\ UNCHANGED <<dq, dsent, dmem, dflag, dmt, duc, dgui, dproc, nonDashVars>>

\* The meta.json of a logdir that is not touched again.
CreateMeta ==
    /\ dmeta.file = "none"
    /\ dmeta' = [dmeta EXCEPT !.file = "m1"]
    /\ UNCHANGED <<dq, dsent, dmem, dflag, dmt, duc, dgui, dproc, nonDashVars>>

RemoveMeta ==
    /\ dmeta.file # "none"
    /\ dmeta' = [dmeta EXCEPT !.file = "none"]
    /\ UNCHANGED <<dq, dsent, dmem, dflag, dmt, duc, dgui, dproc, nonDashVars>>

\* get_meta, lines 451-479: None and the home page without meta.json, the
\* meta data and the dashboard page with it.
get_meta == IF dmeta.file = "none" THEN "None" ELSE dmeta.file

get_meta_page == IF dmeta.file = "none" THEN "homePage" ELSE "dashboardPage"

\* meta_update, lines 561-616.  With meta data and logdir_records None the
\* pipeline is set up (setup, lines 680-707: new queues, new threads at the
\* head of their loops, new processes) and data_is_loaded becomes true;
\* without meta data data_is_loaded becomes false; logdir_records is
\* overwritten at the end (line 616).
meta_update ==
    /\ dgui.pc = "idle"
    /\ dmeta.updates < MaxMetaUpdates
    /\ LET new_logdir_records == get_meta
           first == new_logdir_records # "None" /\ dmeta.logdir_records = "None"
           after == [dmeta EXCEPT
                 !.page = get_meta_page,
                 !.logdir_records = new_logdir_records,
                 !.data_is_loaded = IF new_logdir_records = "None" THEN FALSE
                                    ELSE IF first THEN TRUE ELSE @,
                 !.setups = IF first THEN @ + 1 ELSE @,
                 !.found = new_logdir_records # "None"]
       IN /\ dmeta' = [after EXCEPT !.updates = IF after = dmeta THEN @ ELSE @ + 1]
          /\ IF first
             THEN /\ dq' = PipelineQueues
                  /\ dsent' = NothingSent
                  /\ dflag' = [dflag EXCEPT !.loader_paused = FALSE,
                                            !.sorter_paused = FALSE]
                  /\ dmt' = MessageThreadStart
                  /\ duc' = UpdateContentStart
                  /\ dproc' = [started |-> FALSE, loaded |-> 0, window |-> 0,
                               complete |-> FALSE]
             ELSE UNCHANGED <<dq, dsent, dflag, dmt, duc, dproc>>
    /\ UNCHANGED <<dmem, dgui, nonDashVars>>

\* ---- check_messages (lines 322-403), the message thread ----
\* Lines 335-339: a message of the loader is taken, or the queue stayed
\* empty for the timeout.
check_messages_get_loading ==
    /\ dmeta.setups > 0
    /\ dmt.pc = "poll_loading"
    /\ IF dq.from_loading # <<>>
       THEN /\ dmt' = [dmt EXCEPT !.pc = "poll_sorting",
                                  !.loading_message = Head(dq.from_loading),
                                  !.loading_message_new = TRUE]
            /\ dq' = [dq EXCEPT !.from_loading = Tail(@)]
       ELSE /\ dmt' = [dmt EXCEPT !.pc = "poll_sorting",
                                  !.loading_message_new = FALSE]
            /\ dq' = dq
    /\ UNCHANGED <<dmeta, dsent, dmem, dflag, duc, dgui, dproc, nonDashVars>>

\* Lines 342-346: the same for the sorter.
check_messages_get_sorting ==
    /\ dmt.pc = "poll_sorting"
    /\ IF dq.from_sorting # <<>>
       THEN /\ dmt' = [dmt EXCEPT !.pc = "dispatch",
                                  !.sorting_message = Head(dq.from_sorting),
                                  !.sorting_message_new = TRUE]
            /\ dq' = [dq EXCEPT !.from_sorting = Tail(@)]
       ELSE /\ dmt' = [dmt EXCEPT !.pc = "dispatch",
                                  !.sorting_message_new = FALSE]
            /\ dq' = dq
    /\ UNCHANGED <<dmeta, dsent, dmem, dflag, duc, dgui, dproc, nonDashVars>>

\* Lines 349-360 with respond_loader_message_timetrack / _counter / _end
\* (lines 295-306): what the loader's message does to the memory chunks.
DispatchLoading(chunks) ==
    IF dmt.loading_message_new /\ dmt.loading_message.type = "COUNTER"
    THEN respond_loader_message_counter(chunks, dmt.loading_message.uuid, ChunkMemory)
    ELSE chunks

\* Lines 363-374 with respond_sorter_message_counter / _end (lines 308-311,
\* 318-320): what the sorter's message does to the sorting bar.
DispatchSortingBar(bar) ==
    IF ~dmt.sorting_message_new THEN bar
    ELSE IF dmt.sorting_message.type = "END" THEN 1
    ELSE IF dmt.sorting_message.type = "COUNTER"
         THEN (IF dmt.sorting_message.last THEN 1 ELSE 0)
    ELSE bar

\* Lines 349-374: the two messages are dispatched; a MEMORY of the sorter
\* enters respond_sorter_message_memory.
check_messages_dispatch ==
    /\ dmt.pc = "dispatch"
    /\ dmem' = [dmem EXCEPT
           !.loading = DispatchLoading(@),
           !.sorting = IF dmt.sorting_message_new /\ dmt.sorting_message.type = "COUNTER"
                       THEN respond_loader_message_counter(@, dmt.sorting_message.uuid,
                                                           ChunkMemory)
                       ELSE @]
    /\ dflag' = [dflag EXCEPT
           !.timetrack = @ \/ (dmt.loading_message_new
                               /\ dmt.loading_message.type = "TIMETRACK"),
           !.sorting_bar = DispatchSortingBar(@)]
    /\ dmt' = [dmt EXCEPT !.pc = IF dmt.sorting_message_new
                                    /\ dmt.sorting_message.type = "MEMORY"
                                 THEN "wait_uuid" ELSE "regulate_test"]
    /\ UNCHANGED <<dmeta, dq, dsent, duc, dgui, dproc, nonDashVars>>

\* respond_sorter_message_memory, lines 313-316: the loop waits until the
\* uuid is in loading_queue_memory_chunks, and the entry is deleted.
respond_sorter_message_memory ==
    /\ dmt.pc = "wait_uuid"
    /\ dmt.sorting_message.uuid \in DOMAIN dmem.loading
    /\ dmem' = [dmem EXCEPT !.loading = Without(@, dmt.sorting_message.uuid)]
    /\ dmt' = [dmt EXCEPT !.pc = "regulate_test"]
    /\ UNCHANGED <<dmeta, dq, dsent, dflag, duc, dgui, dproc, nonDashVars>>

\* Lines 377-385: the memory in use is summed, and stop_everything is read
\* (the two messages of the pass are not read again).
check_messages_regulate_test ==
    /\ dmt.pc = "regulate_test"
    /\ dmt' = IF dflag.stop_everything = FALSE
              THEN [MessageThreadStart EXCEPT
                        !.pc = "regulate",
                        !.loader_memory_used = SumValues(dmem.loading),
                        !.sorter_memory_used = SumValues(dmem.sorting)]
              ELSE MessageThreadStart
    /\ UNCHANGED <<dmeta, dq, dsent, dmem, dflag, duc, dgui, dproc, nonDashVars>>

\* Lines 388-394 and 397-403: the message the regulation sends to a process.
Regulation(used, limit, paused) ==
    IF used > limit /\ ~paused THEN "PAUSE"
    ELSE IF used < limit /\ paused THEN "RESUME"
    ELSE "NONE"

SendRegulation(sent, message) ==
    IF message = "NONE" THEN sent ELSE Append(sent, SentBy(message, "regulate"))

PausedAfter(paused, message) ==
    IF message = "NONE" THEN paused ELSE message = "PAUSE"

\* Lines 388-403: the loader and then the sorter are paused or resumed, and
\* the pass is over.
check_messages_regulate_send ==
    /\ dmt.pc = "regulate"
    /\ LET to_loader == Regulation(dmt.loader_memory_used, LoaderLimit,
                                   dflag.loader_paused)
           to_sorter == Regulation(dmt.sorter_memory_used, SorterLimit,
                                   dflag.sorter_paused)
       IN /\ dsent' = [loader |-> SendRegulation(dsent.loader, to_loader),
                       sorter |-> SendRegulation(dsent.sorter, to_sorter)]
          /\ dflag' = [dflag EXCEPT
                 !.loader_paused = PausedAfter(@, to_loader),
                 !.sorter_paused = PausedAfter(@, to_sorter)]
    /\ dmt' = MessageThreadStart
    /\ UNCHANGED <<dmeta, dq, dmem, duc, dgui, dproc, nonDashVars>>

\* ---- the slots of the GUI thread ----
\* restart, lines 411-415: stop_everything is set, both processes are told
\* to pause and both flags are set; the sleep of line 418 follows.
RestartHalt(is_play) ==
    /\ dflag' = [dflag EXCEPT !.stop_everything = TRUE, !.loader_paused = TRUE,
                              !.sorter_paused = TRUE, !.is_play = is_play]
    /\ dsent' = [loader |-> Append(dsent.loader, SentBy("PAUSE", "restart")),
                 sorter |-> Append(dsent.sorter, SentBy("PAUSE", "restart"))]

\* play_pause, lines 186-218: nothing without loaded data; _is_play is
\* toggled, and a complete session that is to play is restarted.
play_pause ==
    /\ dgui.pc = "idle"
    /\ dmeta.data_is_loaded
    /\ IF ~dflag.is_play /\ dflag.session_complete
       THEN /\ dgui.restarts < MaxRestarts
            /\ RestartHalt(TRUE)
            /\ dgui' = [pc |-> "restart_halted", restarts |-> dgui.restarts + 1,
                        replay |-> TRUE]
       ELSE /\ dflag' = [dflag EXCEPT !.is_play = ~@]
            /\ UNCHANGED <<dsent, dgui>>
    /\ UNCHANGED <<dmeta, dq, dmem, dmt, duc, dproc, nonDashVars>>

\* restart called as a slot of its own (lines 405-418).
restart ==
    /\ dgui.pc = "idle"
    /\ dmeta.setups > 0
    /\ dgui.restarts < MaxRestarts
    /\ RestartHalt(dflag.is_play)
    /\ dgui' = [dgui EXCEPT !.pc = "restart_halted", !.restarts = @ + 1]
    /\ UNCHANGED <<dmeta, dq, dmem, dmt, duc, dproc, nonDashVars>>

\* restart, lines 420-438: the data queues are cleared, the memory chunks
\* forgotten, current_time set back and the loader told its window.
restart_clear ==
    /\ dgui.pc = "restart_halted"
    /\ dq' = [dq EXCEPT !.loading = <<>>, !.sorting = <<>>]
    /\ dmem' = [loading |-> <<>>, sorting |-> <<>>]
    /\ dflag' = [dflag EXCEPT !.current_time = 0]
    /\ dsent' = [dsent EXCEPT !.loader = Append(@, SentBy("LOADING_WINDOW", "restart"))]
    /\ dgui' = [dgui EXCEPT !.pc = "restart_window"]
    /\ UNCHANGED <<dmeta, dmt, duc, dproc, nonDashVars>>

\* restart, lines 441-449: both processes are resumed, the three flags
\* cleared and _is_play set.
restart_resume ==
    /\ dgui.pc = "restart_window"
    /\ dsent' = [loader |-> Append(dsent.loader, SentBy("RESUME", "restart")),
                 sorter |-> Append(dsent.sorter, SentBy("RESUME", "restart"))]
    /\ dflag' = [dflag EXCEPT !.sorter_paused = FALSE, !.loader_paused = FALSE,
                              !.stop_everything = FALSE, !.is_play = TRUE]
    /\ dgui' = [dgui EXCEPT !.pc = "idle"]
    /\ UNCHANGED <<dmeta, dq, dmem, dmt, duc, dproc, nonDashVars>>

\* ---- update_content (lines 709-776), the content thread ----
\* Lines 716-740: with a timetrack, playing and not complete, an entry is
\* taken; on an empty queue with the sorting bar at 1 the session is
\* complete and playing stops.
update_content_get ==
    /\ dmeta.setups > 0
    /\ duc.pc = "loop"
    /\ dflag.timetrack
    /\ dflag.is_play /\ ~dflag.session_complete
    /\ IF dq.sorting # <<>>
       THEN /\ duc' = [duc EXCEPT !.pc = "wait", !.uuid = Head(dq.sorting).uuid,
                                  !.entry_time = Head(dq.sorting).entry_time]
            /\ dq' = [dq EXCEPT !.sorting = Tail(@)]
            /\ dflag' = dflag
       ELSE /\ dflag.sorting_bar = 1
            /\ dflag' = [dflag EXCEPT !.session_complete = TRUE, !.is_play = FALSE]
            /\ UNCHANGED <<duc, dq>>
    /\ UNCHANGED <<dmeta, dsent, dmem, dmt, dgui, dproc, nonDashVars>>

\* Lines 746-762: the loop waits for the entry's uuid in
\* sorting_queue_memory_chunks, deletes it, and current_time becomes the
\* entry's time.
update_content_show ==
    /\ duc.pc = "wait"
    /\ duc.uuid \in DOMAIN dmem.sorting
    /\ dmem' = [dmem EXCEPT !.sorting = Without(@, duc.uuid)]
    /\ dflag' = [dflag EXCEPT !.current_time = duc.entry_time]
    /\ duc' = UpdateContentStart
    /\ UNCHANGED <<dmeta, dq, dsent, dmt, dgui, dproc, nonDashVars>>

\* ---- the loader and the sorter, as the Manager's handlers see them ----
\* The loader reports the global timetrack first.
DashLoader_timetrack ==
    /\ dmeta.setups > 0
    /\ ~dproc.started
    /\ dq' = [dq EXCEPT !.from_loading = Append(@, DashMessage("TIMETRACK", 0, FALSE))]
    /\ dproc' = [dproc EXCEPT !.started = TRUE]
    /\ UNCHANGED <<dmeta, dsent, dmem, dflag, dmt, duc, dgui, nonDashVars>>

\* A window is loaded: the chunk goes on the loading queue and its COUNTER
\* on the message queue; it may be the last window.
DashLoader_load ==
    /\ dproc.started /\ ~dproc.complete
    /\ dproc.loaded < MaxDashLoad
    /\ \E last \in BOOLEAN :
           LET uuid == dproc.loaded + 1
           IN /\ dq' = [dq EXCEPT
                     !.loading = Append(@, [uuid |-> uuid, last |-> last]),
                     !.from_loading = Append(@, DashMessage("COUNTER", uuid, FALSE))]
              /\ dproc' = [dproc EXCEPT !.loaded = uuid, !.complete = last]
    /\ UNCHANGED <<dmeta, dsent, dmem, dflag, dmt, duc, dgui, nonDashVars>>

LoadingWindows(sent) == {i \in 1..Len(sent) : sent[i].type = "LOADING_WINDOW"}

\* LOADING_WINDOW(0) has come: the loader starts over at the first window.
DashLoader_window ==
    /\ dproc.window < Cardinality(LoadingWindows(dsent.loader))
    /\ dproc' = [dproc EXCEPT !.window = @ + 1, !.complete = FALSE]
    /\ UNCHANGED <<dmeta, dq, dsent, dmem, dflag, dmt, duc, dgui, nonDashVars>>

\* The sorter takes a chunk: MEMORY for the chunk, the sorted entry and its
\* COUNTER (with the time loaded: the last entry brings the bar to 1).
DashSorter_sort ==
    /\ dq.loading # <<>>
    /\ LET chunk == Head(dq.loading)
       IN dq' = [dq EXCEPT
              !.loading = Tail(@),
              !.sorting = Append(@, [uuid |-> chunk.uuid, entry_time |-> chunk.uuid]),
              !.from_sorting = @ \o <<DashMessage("MEMORY", chunk.uuid, FALSE),
                                      DashMessage("COUNTER", chunk.uuid, chunk.last)>>]
    /\ UNCHANGED <<dmeta, dsent, dmem, dflag, dmt, duc, dgui, dproc, nonDashVars>>

DashMessageThread ==
    \/ check_messages_get_loading
    \/ check_messages_get_sorting
    \/ check_messages_dispatch
    \/ respond_sorter_message_memory
    \/ check_messages_regulate_test
    \/ check_messages_regulate_send

DashContentThread == update_content_get \/ update_content_show

DashRestarting == restart_clear \/ restart_resume

DashGui == play_pause \/ restart \/ DashRestarting

DashFeeding == DashLoader_timetrack \/ DashLoader_load \/ DashSorter_sort

DashProcesses == DashFeeding \/ DashLoader_window

DashMetaNext == WriteMeta \/ RemoveMeta \/ meta_update \/ play_pause

DashNext == CreateMeta \/ meta_update \/ DashMessageThread \/ DashContentThread
            \/ DashGui \/ DashProcesses

\* The meta_update timer with meta.json coming and going.
SpecDashMeta == Init /\ [][DashMetaNext]_vars

\* The pipeline of a dashboard whose meta.json stays.
SpecDash == Init /\ [][DashNext]_vars

\* The same with a user who only plays and pauses.
DashPlayNext == CreateMeta \/ meta_update \/ DashMessageThread \/ DashContentThread
                \/ play_pause \/ DashRestarting \/ DashProcesses

SpecDashPlay == Init /\ [][DashPlayNext]_vars

\* Every thread and process that can run does run, and a restart that has
\* begun goes on.
FairSpecDashPlay ==
    /\ SpecDashPlay
    /\ WF_vars(meta_update)
    /\ WF_vars(DashMessageThread)
    /\ WF_vars(DashContentThread)
    /\ WF_vars(DashRestarting)
    /\ WF_vars(DashProcesses)

\* The same with nobody at the GUI: the message thread and the two
\* processes.
DashMessagesNext == CreateMeta \/ meta_update \/ DashMessageThread \/ DashFeeding

SpecDashMessages == Init /\ [][DashMessagesNext]_vars

FairSpecDashMessages ==
    /\ SpecDashMessages
    /\ WF_vars(meta_update)
    /\ WF_vars(DashMessageThread)
    /\ WF_vars(DashFeeding)

(***************************************************************************)
(* Properties of the Worker's HttpServerService.                           *)
(***************************************************************************)
Last(q) == q[Len(q)]

Recorded(n) == n \in DOMAIN wstate.nodes

\* A step that produces the response of a request to one of the routes R.
Replies(R) == resp' # resp /\ resp'.route \in R

(***************************************************************************)
(* Properties of the Manager and its Workers.                              *)
(***************************************************************************)
\* The fsm of the process of Node n of the committed graph.
ProcFsm(n) == cproc[cmap[n]][n]

\* The last future resolved and nothing has been issued since.
Settled(op) == mop = Idle /\ mrst = NoReset /\ fut.op = op /\ fut.ok

\* C1: for a committed graph, once the future of start (record, stop) has
\* resolved, every Node of the graph is in PREVIEWING (RECORDING, STOPPED);
\* and start, record, stop and collect, issued in that order, each resolve,
\* and resolve true unless a reset cancels the operation.
C1_LifecycleFutures ==
    /\ [](\A op \in LifecycleOps \ {"collect"} :
            Settled(op) =>
                /\ cmap # NoMap
                /\ \A n \in DOMAIN cmap : ProcFsm(n) = OpTarget(op))
    /\ [][(mop.name \in LifecycleOps /\ mop' # mop) =>
              \/ fut' = Future(mop.name, TRUE) /\ sess' = OpPost(mop.name)
              \/ mrst'.during = mop.name]_vars
    /\ (mop.name \in LifecycleOps) ~> (mop = Idle)

\* The whole order was driven through with two Nodes on two Workers.
C1_Witness ==
    /\ Settled("collect")
    /\ cmap["n1"] # cmap["n2"]
    /\ \A n \in DOMAIN cmap : ProcFsm(n) = "SAVED"

\* The consumer of edge e is subscribed to the publisher of its producer.
EdgeLive(e) ==
    /\ csub[e] = [host |-> WorkerIp(cmap[e[1]]), port |-> NodePort(e[1])]
    /\ ProcFsm(e[1]) \notin {"NONE", "NULL", "SHUTDOWN"}
    /\ ProcFsm(e[2]) \notin {"NONE", "NULL", "SHUTDOWN"}

\* C2: once commit_graph has resolved true, every Node of the graph is READY
\* (and reported READY), and every edge has a live subscriber on its
\* producer's port; also when the same graph is committed again after a
\* reset.
C2_CommitReady ==
    Settled("commit") =>
        /\ \A n \in NodeIds : n \in DOMAIN cmap /\ ProcFsm(n) = "READY"
                              /\ ViewFsm(n) = "READY"
        /\ \A e \in Edges : EdgeLive(e)

\* A second commit of the same mapping has resolved, on two Workers.
C2_Witness ==
    /\ Settled("commit") /\ fut.again
    /\ cmap["n1"] # cmap["n2"]
    /\ \A e \in Edges : EdgeLive(e)

\* The step on which the future of a reset(keep_workers = keep) resolves.
ResetResolves(keep) ==
    /\ mrst.phase = "wait" /\ mrst.keep = keep
    /\ fut' # fut /\ fut'.op = "reset"

\* C3: reset(keep_workers=True), called in any state, leaves the set of
\* registered Workers unchanged and ManagerState.workers[w].nodes empty for
\* every Worker w, and the map stays empty until the next operation.
C3_ResetKeepsWorkers ==
    /\ [][ResetResolves(TRUE) =>
            /\ DOMAIN mgr' = DOMAIN mgr
            /\ \A w \in DOMAIN mgr' : mgr'[w].nodes = <<>>]_vars
    /\ []((Settled("reset") /\ fut.keep) =>
            \A w \in Registered : mgr[w].nodes = <<>>)

\* A reset that kept two registered Workers, called in a running session.
C3_Witness ==
    /\ Settled("reset") /\ fut.keep /\ fut.during = "idle"
    /\ Registered = Workers
    /\ hist # {}

\* The commit phases a reset can interrupt.
CommitPhases == {"wait_init", "wait_ready"}

\* C4: a reset(keep_workers=True) issued while a commit is in progress ends,
\* in every interleaving, with every Worker still in ManagerState.workers
\* with an empty nodes map, no Node recorded by a Worker and no Node process
\* left running.
C4_ResetDuringCommit ==
    /\ [][(ResetResolves(TRUE) /\ mrst.during \in CommitPhases) =>
            \A n \in DOMAIN cmap : cmap[n] \in DOMAIN mgr']_vars
    /\ []((Settled("reset") /\ fut.keep /\ fut.during \in CommitPhases) =>
            \A w \in Workers :
                /\ w \in Registered => mgr[w].nodes = <<>>
                /\ cw[w] = <<>>
                /\ \A n \in NodeIds : cproc[w][n] = "NONE")

\* The reset arrived before the Nodes were all spawned, on two Workers, and
\* the last STATUS of a reaped Node is still on its way.
C4_Witness ==
    /\ Settled("reset") /\ fut.keep /\ fut.during = "wait_init"
    /\ Registered = Workers
    /\ \A w \in Workers : cw[w] = <<>>
    /\ \E w \in Workers : clate[w] # {}

\* C5: when a Worker's connect returns, its id is a key of
\* ManagerState.workers; registering an id that is already a key leaves
\* the keys as they were (one entry for the id) and the other entries alone.
C5_RegistrationIdempotent ==
    [][\A w \in Workers :
          (wst[w] = "registering" /\ wst'[w] = "connected") =>
              /\ w \in DOMAIN mgr'
              /\ w \in DOMAIN mgr => DOMAIN mgr' = DOMAIN mgr
              /\ \A x \in DOMAIN mgr \ {w} : x \in DOMAIN mgr' /\ mgr'[x] = mgr[x]]_vars

\* A registered Worker connects again while another Worker is registered.
C5_Witness ==
    /\ wst["w1"] = "registering" /\ "w1" \in Registered
    /\ wst["w2"] = "connected" /\ "w2" \in Registered

C7_HandlersNeverMutate ==
    [][(HttpRoute \/ WsRoute) => wstate' = wstate]_vars

\* C7 (amended): handling any HTTP route leaves the WorkerState as it was,
\* and so does a REPORT_RESULTS message; a STATUS or REPORT_GATHER message
\* changes nothing but the recorded NodeState of one Node that is already
\* recorded: ip, port, the set of recorded Nodes and the other records stay.
C7_OnlyStatusMutates ==
    [][/\ (HttpRoute \/ async_node_report_results) => wstate' = wstate
       /\ (async_node_status_update \/ async_node_report_gather) =>
             /\ wstate'.id = wstate.id
             /\ wstate'.ip = wstate.ip
             /\ wstate'.port = wstate.port
             /\ DOMAIN wstate'.nodes = DOMAIN wstate.nodes
             /\ \E n \in NodeIds :
                   \A m \in DOMAIN wstate.nodes \ {n} :
                       wstate'.nodes[m] = wstate.nodes[m]]_vars

\* C7 witness: a route has been answered and a status message has been
\* recorded (the recorded port is the Node's, not the default).
C7_Witness ==
    /\ resp.status = 200
    /\ \E n \in NodeIds : Recorded(n) /\ wstate.nodes[n].port = NodePort(n)

\* The event type the interface table gives for each lifecycle route.
C8_Table(route) ==
    CASE route = "/nodes/create" -> "create_node"
      [] route = "/nodes/destroy" -> "destroy_node"
      [] route = "/nodes/server_data" -> "process_node_server_data"
      [] route = "/nodes/step" -> "step"
      [] route = "/nodes/start" -> "start_nodes"
      [] route = "/nodes/record" -> "record"
      [] route = "/nodes/stop" -> "stop_nodes"
      [] route = "/nodes/registered_methods" -> "registered_method"

C8_Routes ==
    {"/nodes/create", "/nodes/destroy", "/nodes/server_data", "/nodes/step",
     "/nodes/start", "/nodes/record", "/nodes/stop", "/nodes/registered_methods"}

\* What the event of a route has to carry.
C8_Carries(route, data) ==
    CASE route = "/nodes/create" -> data.node_config \in {[id |-> n] : n \in NodeIds}
      [] route = "/nodes/destroy" -> data.node_id \in NodeIds
      [] route = "/nodes/server_data" -> data.data = PeerTable
      [] OTHER -> TRUE

\* C8: the step that answers a lifecycle route publishes exactly one event,
\* of the route's own type and carrying the request's data, and answers 200.
C8_RoutePublishesItsEvent ==
    [][Replies(C8_Routes) =>
          /\ resp'.status = 200
          /\ Len(busq') = Len(busq) + 1
          /\ SubSeq(busq', 1, Len(busq)) = busq
          /\ Last(busq').type = C8_Table(resp'.route)
          /\ C8_Carries(resp'.route, Last(busq').data)]_vars

\* C8 witness: /nodes/start has been answered and start_nodes is on the bus.
C8_Witness ==
    /\ resp.route = "/nodes/start" /\ resp.status = 200
    /\ busq # <<>> /\ Last(busq).type = "start_nodes"

\* C9: a collect handler publishes collect, then send_archive, then answers
\* 200: send_archive is published only by a handler that has published
\* collect, and the answer is produced only by one that has published both.
C9_CollectThenSendArchive ==
    [][/\ \A r \in DOMAIN collecting :
             IF r \in DOMAIN collecting'
             THEN \/ collecting'[r] = collecting[r]
                  \/ /\ collecting[r] = <<>> /\ collecting'[r] = <<"collect">>
                     /\ busq' = Append(busq, Event("collect", NoData))
                  \/ /\ collecting[r] = <<"collect">>
                     /\ collecting'[r] = <<"collect", "send_archive">>
                     /\ busq' = Append(busq, Event("send_archive", NoData))
             ELSE /\ collecting[r] = <<"collect", "send_archive">>
                  /\ resp' = Response(r, "/nodes/collect", 200, NoData)
       /\ Replies({"/nodes/collect"}) => resp'.req \in DOMAIN collecting
       /\ (Len(busq') > Len(busq) /\ Last(busq').type \in {"collect", "send_archive"})
             => collecting' # collecting]_vars

\* C9 witness: a collect request answered while another handler is between
\* its two publications.
C9_Witness ==
    /\ resp.route = "/nodes/collect" /\ resp.status = 200
    /\ \E r \in DOMAIN collecting : collecting[r] = <<"collect">>

\* C10: the step that answers POST /shutdown only schedules the task: it
\* publishes nothing and leaves the server serving; the shutdown event is
\* published by the task, and every scheduled task eventually runs.
C10_ShutdownRepliesFirst ==
    /\ [][/\ Replies({"/shutdown"}) =>
                /\ resp'.status = 200
                /\ resp'.req \in tasks' \ tasks
                /\ busq' = busq
                /\ server' = server
          /\ \A r \in tasks \ tasks' :
                busq' = Append(busq, Event("shutdown", NoData))]_vars
    /\ \A r \in 1..(MaxReq + 1) : (r \in tasks) ~> (r \notin tasks)

\* C10 witness: /shutdown answered, its shutdown event not yet published.
C10_Witness ==
    /\ resp.route = "/shutdown" /\ resp.status = 200
    /\ resp.req \in tasks
    /\ server.serving

\* C11: POST /nodes/registered_methods answers 200 with the body
\* {success, return}: success is true and return is the value the method
\* returned for the request's parameters (set_value(v) gives v, reset 100).
\* While the request's event is the newest on the bus, the answer in resp is
\* the answer to that request.
C11_ReplyCarriesReturn ==
    (/\ resp.route = "/nodes/registered_methods"
     /\ busq # <<>> /\ Last(busq).type = "registered_method")
        => /\ resp.status = 200
           /\ resp.body = [success |-> TRUE,
                           return |-> MethodReturn(Last(busq).data.method_name,
                                                   Last(busq).data.params)]

\* C11 witness: set_value(-100) has been requested and answered.
C11_Witness ==
    /\ resp.route = "/nodes/registered_methods" /\ resp.status = 200
    /\ busq # <<>> /\ Last(busq).type = "registered_method"
    /\ Last(busq).data.method_name = "set_value"
    /\ Last(busq).data.params = [value |-> -100]

\* C12: with two invocations on the same Node in flight, each REPORT_RESULTS
\* output is delivered to the request that caused it: what a request is
\* handed is what its own invocation returned.
C12_ResultReachesItsRequest ==
    \A r \in DOMAIN delivered :
        r \in DOMAIN produced /\ delivered[r] = produced[r]

\* C12 witness: two requests on the Node were in flight together and one
\* of them has been handed a result.
C12_Witness ==
    /\ nrid >= 2
    /\ 1 \in DOMAIN delivered
    /\ 2 \in DOMAIN produced
    /\ waiting # <<>>

ResetCompletes(n) ==
    /\ Len(wsq'[n]) > Len(wsq[n])
    /\ wsq'[n][Len(wsq'[n])] = ResultsMsg(n, MethodReturn("reset", <<>>))

C16_ServerDataReportsState ==
    [][Replies({"GET /nodes/server_data"}) =>
          /\ resp'.status = 200
          /\ DOMAIN resp'.body = {"success", "node_server_data"}
          /\ resp'.body.success = TRUE
          /\ DOMAIN resp'.body.node_server_data = {"id", "nodes"}
          /\ resp'.body.node_server_data.id = wstate.id
          /\ DOMAIN resp'.body.node_server_data.nodes = DOMAIN wstate.nodes
          /\ \A n \in DOMAIN wstate.nodes :
                resp'.body.node_server_data.nodes[n] =
                    [host |-> wstate.ip, port |-> wstate.nodes[n].port]
          /\ busq' = busq
          /\ UNCHANGED <<wstate, server, collecting, tasks, nodeProc, wsq,
                         destroying>>]_vars

\* C16 witness: the fragment was reported for a Worker that records a Node
\* with its publisher port.
C16_Witness ==
    /\ resp.route = "GET /nodes/server_data" /\ resp.status = 200
    /\ \E n \in DOMAIN resp.body.node_server_data.nodes :
          resp.body.node_server_data.nodes[n] =
              [host |-> ServerHost, port |-> NodePort(n)]

\* C17: for every package of a POST /packages/load request, the package is
\* placed on the import path only after its file-transfer record exists and
\* is marked complete; a request one of whose packages did not arrive
\* complete within worker.timeout.package-delivery is not answered 200.
C17_InstallOnlyComplete ==
    /\ \A i \in 1..Len(syspath) :
          syspath[i] \in DOMAIN ftr /\ ftr[syspath[i]].complete
    /\ \A r \in DOMAIN loading :
          (resp.req = r /\ resp.route = "/packages/load" /\ resp.status = 200)
             => \A i \in 1..Len(loading[r].packages) :
                   /\ loading[r].packages[i] \in DOMAIN ftr
                   /\ ftr[loading[r].packages[i]].complete

\* C17 witness: a request for two packages has been answered 200 with both
\* on the import path, and another request has failed.
C17_Witness ==
    /\ resp.route = "/packages/load" /\ resp.status = 200
    /\ loading[resp.req].packages = <<"a", "b">>
    /\ Len(syspath) >= 2
    /\ \E r \in DOMAIN loading : loading[r].phase = "failed"

C19_ShutdownTerminates ==
    /\ (ucall # NoCall) ~> (ucall = NoCall)
    /\ (tasks # {}) ~> (wup = "down")
    /\ [](\A i \in 1..Len(uret) : uret[i].ok /\ Down(uret[i].who))

\* C19 witness: the Manager was shut down first, with the Worker connected
\* (it could not deregister any more), then the Worker; both are down.
C19_Witness ==
    /\ Len(uret) >= 2
    /\ uret[1].who = "manager" /\ uret[2].who = "worker"
    /\ WorkerId \in DOMAIN mgr
    /\ mup = "down" /\ wup = "down"

\* C19, the other order: the connected Worker was shut down first and has
\* deregistered, then the Manager.
C19_WorkerFirst ==
    /\ Len(uret) >= 2
    /\ uret[1].who = "worker" /\ uret[2].who = "manager"
    /\ wst[WorkerId] = "new" /\ nreq = 0
    /\ mup = "down" /\ wup = "down"

\* The client was subscribed when a mutation was broadcast.
UiOwed == uiview # NoView \/ uiq # <<>> \/ uidrops > 0

RECURSIVE IsSubsequence(_, _)
IsSubsequence(q, p) ==
    IF q = <<>> THEN TRUE
    ELSE IF p = <<>> THEN FALSE
    ELSE IF Head(q) = Head(p) THEN IsSubsequence(Tail(q), Tail(p))
    ELSE IsSubsequence(q, Tail(p))

C22_SavesOnlyWhileRecording ==
    /\ [][Len(rq') > Len(rq) => rfsm = "RECORDING"]_vars
    /\ [](rfsm = "SHUTDOWN" /\ rrec > 0 => JsonlPath("test") \in DOMAIN disk)

\* C22 witness: the Node was shut down with the file of its stream on disk
\* although none of its saves was made while RECORDING.
C22_Witness ==
    /\ rfsm = "SHUTDOWN"
    /\ rsaves > 0 /\ rrec = 0
    /\ Len(Lines(disk, JsonlPath("test"))) = rsaves

IsMember(name) == name \in Range(sgdata)

\* C24: apply with an empty order calls the method exactly once on every
\* member, in insertion order; with a non-empty order it calls it in the
\* order given, once for each listed name that is a member, and skips the
\* names that are not members.
C24_ApplyCallsMembers ==
    [][(sgapplied' = "apply" /\ sgdata' = sgdata) =>
          IF sgorder' = <<>>
          THEN /\ Len(sgcalls') = Len(sgdata)
               /\ \A i \in 1..Len(sgdata) : sgcalls'[i] = sgdata[i]
               /\ \A i, j \in 1..Len(sgcalls') : i # j => sgcalls'[i] # sgcalls'[j]
          ELSE sgcalls' = SelectSeq(sgorder', IsMember)]_vars

\* C24 witness: apply ran on a group of two members with an order that
\* lists a name that is no member and then the member inserted last.
C24_Witness ==
    /\ sgapplied = "apply"
    /\ Len(sgdata) = 2
    /\ sgorder = <<"absent", sgdata[2]>>
    /\ sgcalls = <<sgdata[2]>>

\* C25: the step of the start handler that publishes after_server_startup
\* leaves WorkerState.ip and WorkerState.port equal to the host and port the
\* server is bound to (the OS-chosen port when the configured port is 0),
\* and they stay so, so that every observer of the event sees the actual
\* address.
C25_AddressBeforeStartupEvent ==
    /\ [][(Len(busq') = Len(busq) + 1 /\ Last(busq').type = "after_server_startup") =>
             /\ server'.serving
             /\ wstate'.ip = server'.host /\ wstate'.ip # ""
             /\ wstate'.port = server'.port /\ wstate'.port # 0]_vars
    /\ [](server.served =>
             /\ wstate.ip = server.host /\ wstate.ip # ""
             /\ wstate.port = server.port /\ wstate.port # 0)

\* C25 witness: a Worker configured with port 0 has published
\* after_server_startup and its state holds the port the OS chose.
C25_Witness ==
    /\ \E i \in 1..Len(busq) : busq[i].type = "after_server_startup"
    /\ wstate.port \in OsPorts
    /\ wstate.ip = ServerHost

\* The callables that have finished running on the loop.
Finished(c) == alcalls[c].runs = 1 /\ alrun # c

RECURSIVE LastRows(_)
LastRows(chunks) ==
    IF Len(chunks) = 1 \/ chunks[Len(chunks)].data # <<>>
    THEN chunks[Len(chunks)].data
    ELSE LastRows(SubSeq(chunks, 1, Len(chunks) - 1))

\* C27: after any sequence of flush calls, meta.json equals the in-memory
\* meta_data; meta_data holds an entry for exactly the (session, name)
\* pairs flushed so far, with the dtype and start_time of the pair's first
\* chunk and the end_time of its most recent non-empty chunk; every session
\* other than root that was flushed is in subsessions exactly once.
C27_MetaJsonFollowsFlushes ==
    /\ MetaLoad(lfile) = lmeta
    /\ DOMAIN lmeta.records = DOMAIN lrecords
    /\ \A k \in DOMAIN lmeta.records \cap DOMAIN lrecords :
          lrecords[k].chunks # <<>> =>
             /\ lmeta.records[k].dtype = lrecords[k].chunks[1].dtype
             /\ lmeta.records[k].start_time = TimeStr(lrecords[k].chunks[1].data[1])
             /\ LET rows == LastRows(lrecords[k].chunks)
                IN lmeta.records[k].end_time = TimeStr(rows[Len(rows)])
    /\ \A k \in DOMAIN lrecords :
          k[1] # "root" =>
             Cardinality({i \in 1..Len(lmeta.subsessions) :
                             lmeta.subsessions[i] = k[1]}) = 1

\* C27 witness: the first chunk flushed for a pair of session s1 had an
\* empty frame: flush raised, s1 is in the subsessions in memory and not in
\* meta.json, and the pair has no entry in meta_data.
C27_Witness ==
    /\ lstate = "crashed"
    /\ lmeta.subsessions = <<"s1">>
    /\ lfile.subsessions = <<>>
    /\ <<"s1", "x">> \in DOMAIN lrecords
    /\ <<"s1", "x">> \notin DOMAIN lmeta.records

\* The chunks appended to the entries of a set of keys.
RECURSIVE ChunksIn(_, _)
ChunksIn(records, keys) ==
    IF keys = {} THEN 0
    ELSE LET k == CHOOSE x \in keys : TRUE
         IN Len(records[k].chunks) + ChunksIn(records, keys \ {k})

ChunksFlushed == ChunksIn(lrecords, DOMAIN lrecords)

\* C30: when the Logger sends META/END the logging queue is empty and every
\* chunk put before the END message was processed has been flushed to its
\* entry; the count of every COUNTER message is the number of chunks
\* flushed; once run() has finished every entry is closed and nothing is
\* flushed any more.
C30_NoChunkLostOnShutdown ==
    /\ [][(lstate = "running" /\ lstate' = "finished") =>
             /\ lq = <<>>
             /\ ChunksFlushed = lput.total
             /\ ChunksFlushed >= lput.at_exit]_vars
    /\ [](lnum = ChunksFlushed)
    /\ [][(Len(lout') > Len(lout) /\ Last(lout').type = "COUNTER") =>
             Last(lout').num_of_logged_data = ChunksIn(lrecords', DOMAIN lrecords')]_vars
    /\ [](lstate = "finished" => \A k \in DOMAIN lrecords : lrecords[k].closed)
    /\ [][lstate = "finished" => lrecords' = lrecords]_vars

\* C30 witness: two chunks were put before END was processed and a third
\* after it; all three were flushed, META/END was sent last and the entries
\* are closed.
C30_Witness ==
    /\ lstate = "finished"
    /\ lput.at_exit = 2 /\ lput.total = 3
    /\ lnum = 3
    /\ lout # <<>> /\ Last(lout) = EndMessage
    /\ \A k \in DOMAIN lrecords : lrecords[k].closed

\* C28: the Worker the entry point starts has its HTTP server listening on
\* the port given by --wport, or on 8080 when the flag is absent.
C28_ListensOnWport ==
    cli.status = "connected" => server.serving /\ server.port = cli.args.wport

\* C28 witness: the entry point was started with --wport 9001 and the
\* Worker's server listens on another port.
C28_Witness ==
    /\ cli.status = "connected"
    /\ cli.args.wport = 9001
    /\ server.serving /\ server.port # 9001

\* The NodeState a STATUS or REPORT_GATHER message carries.
CarriedState(msg) ==
    NodeState_from_dict(IF msg.signal = "STATUS" THEN msg.data ELSE msg.data["state"])

\* C29: STATUS and REPORT_GATHER messages never add or remove keys of
\* WorkerState.nodes: a message whose node id is not a key leaves nodes as
\* it was (a Node already removed is not re-created by a late message), and
\* a message for a known id replaces that entry only, under the key equal
\* to the NodeState's own id; every record is kept under its own id.
C29_StatusKeepsKeys ==
    /\ [](\A k \in DOMAIN wstate.nodes : wstate.nodes[k].id = k)
    /\ [][\A n \in NodeIds :
            (/\ wsq[n] # <<>>
             /\ Head(wsq[n]).signal \in {"STATUS", "REPORT_GATHER"}
             /\ wsq' = [wsq EXCEPT ![n] = Tail(@)]) =>
                LET node_state == CarriedState(Head(wsq[n]))
                    nodes == wstate.nodes
                IN /\ DOMAIN wstate'.nodes = DOMAIN nodes
                   /\ node_state.id \notin DOMAIN nodes => wstate'.nodes = nodes
                   /\ node_state.id \in DOMAIN nodes =>
                         /\ wstate'.nodes[node_state.id] = node_state
                         /\ \A m \in DOMAIN nodes \ {node_state.id} :
                               wstate'.nodes[m] = nodes[m]]_vars

\* C29 witness: the late STATUS of a Node that has no record and no process
\* is next on its socket, and the late gather reply of the other Node has
\* replaced the record made when that Node was created again (its new
\* process has not reported yet).
C29_Witness ==
    \E n, m \in NodeIds :
        /\ ~Recorded(n) /\ nodeProc[n] = "NONE"
        /\ wsq[n] # <<>> /\ Head(wsq[n]).signal = "STATUS"
        /\ Recorded(m) /\ nodeProc[m] = "NULL"
        /\ wstate.nodes[m] = NodeSnapshot(m, "READY")

(***************************************************************************)
(* Properties of the legacy pymmdt package.                                *)
(***************************************************************************)
\* How many times each row occurs in a sequence of rows.
Occurrences(rows) ==
    [r \in Rows |-> Cardinality({i \in 1..Len(rows) : rows[i] = r})]

\* The rows of data whose time is inside the window.
RECURSIVE RowsInWindow(_, _, _)
RowsInWindow(data, start_time, end_time) ==
    IF data = <<>> THEN <<>>
    ELSE (IF InWindow(Head(data), start_time, end_time) THEN <<Head(data)>> ELSE <<>>)
         \o RowsInWindow(Tail(data), start_time, end_time)

\* C39: for a TabularDataStream built by any sequence of append calls,
\* get(start_time, end_time) with end_time > start_time returns exactly the
\* appended rows whose time t satisfies start_time <= t < end_time, each row
\* once, also the rows of a second or later append.
C39_GetReturnsWindowRows ==
    tgot # NoGet =>
        Occurrences(tgot.rows) = Occurrences(RowsInWindow(tdata, tgot.start, tgot.end))

\* C39 witness: after two appends a get has asked for a window that holds
\* a row of the second append.
C39_Witness ==
    /\ tnapp = 2
    /\ tgot # NoGet
    /\ \E i \in 1..Len(tdata) :
          /\ ttrack[i].ds_index + 1 # i
          /\ InWindow(tdata[i], tgot.start, tgot.end)

\* C31: in SingleRunner.check_messages every message taken from the
\* loader's or the logger's message queue is dispatched to its handler
\* exactly once: none is dispatched a second time on a later pass, also not
\* on the pass in which thread_exit becomes set between the test of the
\* outer loop and the test of the inner loop.
C31_DispatchedOnce ==
    \A m \in RunnerMessages : rdisp[m] <= 1

\* C31 witness: thread_exit was set after the outer test; the inner loop
\* is skipped and the flag of a message that was dispatched is still set.
C31_Witness ==
    /\ rexit
    /\ rmt.pc = "loading"
    /\ \/ rmt.loading_message_new /\ rdisp[rmt.loading_message] = 1
       \/ rmt.logging_message_new /\ rdisp[rmt.logging_message] = 1

\* C32: SingleRunner.shutdown always terminates: after END is sent to the
\* loader and the logger, loader_finished and logger_finished both become
\* true (also when the logger's outgoing queue is full when it reports END)
\* and the loader, the logger and the message thread are joined.
C32_ShutdownTerminates ==
    (rmain.pc = "sd_wait") ~> (rmain.pc = "done")

\* C32 witness: shutdown waits, the Logger has ended, and its META/END is
\* neither on the queue nor with the message thread.
C32_Witness ==
    /\ rmain.pc = "sd_wait"
    /\ rproc.logger = "finished"
    /\ ~rflag.logger_finished
    /\ \A i \in 1..Len(rmfg) : rmfg[i].type # "END"
    /\ rmt.logging_message.type # "END"

\* The PAUSE and RESUME messages sent to the loader, in order.
RECURSIVE BackPressureSent(_)
BackPressureSent(sent) ==
    IF sent = <<>> THEN <<>>
    ELSE (IF Head(sent) = "END" THEN <<>> ELSE <<Head(sent)>>)
         \o BackPressureSent(Tail(sent))

LastOf(q) == q[Len(q)]

\* C33: the back-pressure messages check_messages sends to the loader
\* alternate PAUSE, RESUME, PAUSE, ..., starting with PAUSE; loader_paused
\* is true exactly when the last one sent was PAUSE; PAUSE is sent only
\* when total_memory_used exceeds total_available_memory and RESUME only
\* when it is below it.
C33_BackPressureAlternates ==
    /\ [](LET sent == BackPressureSent(rtoload)
          IN /\ \A i \in 1..Len(sent) :
                    sent[i] = IF i % 2 = 1 THEN "PAUSE" ELSE "RESUME"
             /\ rflag.loader_paused <=> (sent # <<>> /\ LastOf(sent) = "PAUSE"))
    /\ [][(rtoload' # rtoload /\ LastOf(rtoload') # "END") =>
             /\ LastOf(rtoload') = "PAUSE" => rflag'.total_memory_used > Available
             /\ LastOf(rtoload') = "RESUME" => rflag'.total_memory_used < Available]_vars

\* C33 witness: the loader was paused and resumed.
C33_Witness ==
    /\ Len(BackPressureSent(rtoload)) >= 2
    /\ ~rflag.loader_paused

\* The loader's COUNTER for chunk u has been handled.
CounterHandled(u) == rdisp[RunnerMessage("LOADER", "COUNTER", u)] >= 1

CounterQueued(uuid) ==
    \E i \in 1..Len(dq.from_loading) :
        dq.from_loading[i] = DashMessage("COUNTER", uuid, FALSE)

\* C35: the message thread never blocks forever: whenever it handles a
\* MEMORY message of the sorter (respond_sorter_message_memory), the
\* handling ends, with the uuid removed from loading_queue_memory_chunks.
C35_MemoryHandled ==
    (dmt.pc = "wait_uuid") ~> (dmt.pc # "wait_uuid")

\* The thread waits for a uuid whose COUNTER it has not taken yet.
C35_Witness ==
    /\ dmt.pc = "wait_uuid"
    /\ dmt.sorting_message.uuid \notin DOMAIN dmem.loading
    /\ CounterQueued(dmt.sorting_message.uuid)

\* What was sent to a process since restart told it to pause.
RestartSegment(sent) ==
    LET halts == {i \in 1..Len(sent) : sent[i] = SentBy("PAUSE", "restart")}
    IN IF halts = {} THEN <<>>
       ELSE SubSeq(sent, CHOOSE i \in halts : \A j \in halts : j <= i, Len(sent))

\* C36: when restart returns, the loader has been sent PAUSE,
\* LOADING_WINDOW(0), RESUME and the sorter PAUSE, RESUME, all by restart
\* itself with no message of the memory regulation between them, and
\* loader_paused, sorter_paused and stop_everything are false (as the last
\* message to each process, RESUME, says).
C36_RestartUndisturbed ==
    [][dgui.pc = "restart_window" /\ dgui'.pc = "idle"
       => /\ RestartSegment(dsent'.loader)
                = <<SentBy("PAUSE", "restart"), SentBy("LOADING_WINDOW", "restart"),
                    SentBy("RESUME", "restart")>>
          /\ RestartSegment(dsent'.sorter)
                = <<SentBy("PAUSE", "restart"), SentBy("RESUME", "restart")>>
          /\ ~dflag'.loader_paused /\ ~dflag'.sorter_paused
          /\ ~dflag'.stop_everything]_vars

\* A restart is under way and the memory regulation has sent the loader a
\* message after restart's PAUSE.
C36_Witness ==
    /\ dgui.pc \in {"restart_halted", "restart_window"}
    /\ \E i \in 1..Len(RestartSegment(dsent.loader)) :
           RestartSegment(dsent.loader)[i].by = "regulate"

\* C37: after play_pause has restarted a complete session, playback
\* resumes: with the session playing and a sorted entry waiting,
\* update_content takes it and current_time advances (unless the user
\* pauses again).
C37_PlaybackResumes ==
    (/\ dgui.replay /\ dgui.pc = "idle"
     /\ dflag.is_play /\ dflag.timetrack
     /\ duc.pc = "loop" /\ dq.sorting # <<>>)
        ~> (dflag.current_time > 0 \/ ~dflag.is_play)

\* play_pause has restarted the session, it plays, an entry waits.
C37_Witness ==
    /\ dgui.replay /\ dgui.pc = "idle"
    /\ dflag.is_play /\ dflag.timetrack
    /\ duc.pc = "loop" /\ dq.sorting # <<>>
    /\ dflag.current_time = 0

\* C38: however meta.json comes and goes, the pipeline is set up at most
\* once, and data_is_loaded is true exactly when the most recent
\* meta_update found meta data.
C38_SetUpOnce ==
    /\ dmeta.setups <= 1
    /\ dmeta.data_is_loaded <=> dmeta.found

\* meta.json was present, absent and present again at three meta_update
\* calls.
C38_Witness ==
    /\ dmeta.updates >= 3
    /\ dmeta.setups = 2
    /\ dmeta.data_is_loaded /\ dmeta.found

====
